---- MODULE Spec2Model ----
(***************************************************************************)
(* A model of sergey's rule-execution and diagnostic-resolution pipeline:  *)
(* Analyzer.analyze with its suppression resolver (sergey/analyzer.py),    *)
(* the fix applier (sergey/__main__.py) and the configuration resolver     *)
(* (sergey/config.py).                                                     *)
(*                                                                         *)
(* Text is a sequence of text units.  In the analyzer part a unit is a     *)
(* lexical token (a statement, "#", " ", "sergey", ":", a rule id, ",",    *)
(* "\n"); in the fix applier part a unit is one character.                 *)
(***************************************************************************)
EXTENDS Integers, Sequences, FiniteSets, TLC

VARIABLES
    rules,      \* Analyzer.rules: the rule instances the analyzer runs, in order
    source,     \* the source handed to analyze: a sequence of physical lines
    env,        \* the module-resolution environment find_spec consults
    loaded,     \* sys.modules: the modules imported into the process
    outcome,    \* what the last analyze call on `source` gave the caller
    calls,      \* number of analyze calls made on `source` so far
    first,      \* what the first analyze call on `source` gave (history)
    farg,       \* _apply_fixes: the `source` argument as the caller passed it
    fsource,    \* _apply_fixes: the local `source`, patched edit by edit
    fdiags,     \* _apply_fixes: the `diagnostics` argument
    all_edits,  \* _apply_fixes: the collected edits
    pending,    \* _apply_fixes: the sorted edits not applied yet
    fpc,        \* _apply_fixes: position in the function
    all_rules,  \* filter_rules: the `all_rules` argument
    config,     \* the Config handed to filter_rules / configure_rules
    active,     \* what filter_rules returned
    configured, \* what configure_rules gave the caller
    cpc,        \* position of the check command's configuration steps
    instances,  \* the STR003 objects alive, by identity (1, 2, ...)
    created,    \* the threshold each object was constructed with (history)
    call,       \* the last configure call: receiver, options, object returned
    fs,         \* pyproject.toml in the start directory and in each ancestor
    loadres,    \* what load_config(start) gave the caller
    directive,  \* a suppression comment as written: keyword, ids, spacing
    drule,      \* the rule_id of a diagnostic on the comment's line
    dres,       \* what _apply_suppressions made of the comment and rule_id
    workspace,  \* ls.workspace: the text documents the client has open
    published,  \* the client's view: the last diagnostics published per uri
    event,      \* the last notification handled and what it published
    args,       \* sergey check: the command line as typer parsed it
    project,    \* the pyproject.toml of the working directory
    disk,       \* the files named on the command line: content, writes so far
    proc,       \* the check process: position, rules, found_any, exit code
    stdout,     \* the lines echoed to standard output
    stderr,     \* the lines echoed to standard error
    processed,  \* the files analyzed, each with the diagnostics it was left with
    threads,    \* the analyze calls in flight on one Analyzer, one per thread
    parsed,     \* the module handed to a structure rule's check
    reported    \* what the structure rule's check returned for `parsed`

avars == <<rules, source, env, loaded, outcome, calls, first>>
fvars == <<farg, fsource, fdiags, all_edits, pending, fpc>>
cvars == <<all_rules, config, active, configured, cpc>>
ivars == <<instances, created, call>>
\* The variables of the parts added after the analyzer, the fix applier
\* and the configuration steps.
lvars == <<fs, loadres>>
dvars == <<directive, drule, dres>>
svars == <<workspace, published, event>>
kvars == <<args, project, disk, proc, stdout, stderr, processed>>
\* The variables of the parts that follow the check command.
tvars == <<threads>>
uvars == <<parsed, reported>>
nvars == <<tvars, uvars>>
ovars == <<ivars, lvars, dvars, svars, kvars, nvars>>
vars == <<rules, source, env, loaded, outcome, calls, first,
          farg, fsource, fdiags, all_edits, pending, fpc,
          all_rules, config, active, configured, cpc,
          instances, created, call, fs, loadres, directive, drule, dres,
          workspace, published, event,
          args, project, disk, proc, stdout, stderr, processed,
          threads, parsed, reported>>

\* Python's None.
None == "None"

(***************************************************************************)
(* Generic sequence helpers.                                               *)
(***************************************************************************)
Range(s) == {s[i] : i \in 1..Len(s)}

RECURSIVE Concat(_)
Concat(ss) == IF ss = <<>> THEN <<>> ELSE Head(ss) \o Concat(Tail(ss))

RECURSIVE SelectFrom(_, _)
\* The subsequence of s of the positions in keep, in order.
SelectFrom(s, keep) ==
    IF s = <<>> THEN <<>>
    ELSE LET rest == SelectFrom(Tail(s), {i - 1 : i \in keep \ {1}})
         IN  IF 1 \in keep THEN <<Head(s)>> \o rest ELSE rest

(***************************************************************************)
(* Source text.  A source is a sequence of physical lines; a line holds    *)
(* one statement and, possibly, a trailing suppression comment.  The       *)
(* comment is written out into tokens by CommentText, and the analyzer     *)
(* reads it back from the tokens with its regular expressions.             *)
(***************************************************************************)
NoComment == [scope |-> "none", ids |-> <<>>]

RECURSIVE JoinIds(_)
\* "A, B, C": the ids separated by a comma and a space.
JoinIds(ids) ==
    IF Len(ids) <= 1 THEN ids
    ELSE <<Head(ids), ",", " ">> \o JoinIds(Tail(ids))

CommentText(c) ==
    IF c.scope = "none" THEN <<>>
    ELSE <<" ", " ", "#", " ", "sergey", ":", " ", c.scope>>
         \o (IF c.ids = <<>> THEN <<>> ELSE <<":", " ">> \o JoinIds(c.ids))

\* An assignment of a string literal that holds a form feed: one logical
\* line for the parser.
FormFeedStmt == "x = '<form feed>'"

\* The text of a statement: one unit, but for the literal whose form feed
\* is a unit of its own.
StmtText(stmt) ==
    IF stmt = FormFeedStmt THEN <<"x = '", "\f", "'">> ELSE <<stmt>>

LineText(l) == StmtText(l.stmt) \o CommentText(l.comment)

RECURSIVE SourceText(_)
SourceText(src) ==
    IF src = <<>> THEN <<>>
    ELSE LineText(Head(src)) \o <<"\n">> \o SourceText(Tail(src))

\* The units str.splitlines treats as a line boundary.
LineBoundaries == {"\n", "\r", "\f"}

RECURSIVE SplitAcc(_, _, _)
SplitAcc(text, cur, keepends) ==
    IF text = <<>> THEN (IF cur = <<>> THEN <<>> ELSE <<cur>>)
    ELSE IF Head(text) \in LineBoundaries
         THEN <<IF keepends THEN Append(cur, Head(text)) ELSE cur>>
              \o SplitAcc(Tail(text), <<>>, keepends)
         ELSE SplitAcc(Tail(text), Append(cur, Head(text)), keepends)

\* str.splitlines(): the lines without their terminators.
SplitLines(text) == SplitAcc(text, <<>>, FALSE)

\* str.splitlines(keepends=True): the lines with their terminators.
SplitLinesKeepEnds(text) == SplitAcc(text, <<>>, TRUE)

(***************************************************************************)
(* The directive patterns, matched token by token and ignoring case: "#",  *)
(* optional whitespace, "sergey:", optional whitespace, the keyword, and   *)
(* optionally ":", optional whitespace and a captured run of letters,      *)
(* digits, commas and whitespace that starts with a letter or digit.       *)
(***************************************************************************)
Whitespace == {" ", "\t"}

\* The tokens made of letters and digits only: what [A-Z0-9]+ matches
\* under re.IGNORECASE.
Alnum == {"DOC001", "IMP001", "IMP002", "IMP003", "IMP004", "STR004",
          "imp001", "imp002", "imp003", "because",
          "sergey", "SERGEY", "noqa", "NOQA"}

\* str.upper() on a token (and the case folding of re.IGNORECASE).
UpperTable ==
    ("imp001" :> "IMP001") @@ ("imp002" :> "IMP002") @@ ("imp003" :> "IMP003")
    @@ ("because" :> "BECAUSE") @@ ("sergey" :> "SERGEY") @@ ("noqa" :> "NOQA")
    @@ ("disable-file" :> "DISABLE-FILE")
    @@ ("Imp001" :> "IMP001") @@ ("str003" :> "STR003") @@ ("Str003" :> "STR003")

Upper(tok) == IF tok \in DOMAIN UpperTable THEN UpperTable[tok] ELSE tok

UpperSeq(toks) == [i \in 1..Len(toks) |-> Upper(toks[i])]

RECURSIVE SkipWs(_, _)
\* Optional whitespace: the first position at or after i that holds no whitespace.
SkipWs(line, i) ==
    IF i <= Len(line) /\ line[i] \in Whitespace THEN SkipWs(line, i + 1) ELSE i

RECURSIVE CaptureEnd(_, _)
\* The greedy run of letters, digits, commas and whitespace: the last
\* position of the run starting at i.
CaptureEnd(line, i) ==
    IF i + 1 <= Len(line) /\ line[i + 1] \in (Alnum \cup Whitespace \cup {","})
    THEN CaptureEnd(line, i + 1) ELSE i

\* re.match of the pattern at position i: whether it matches and group(1),
\* <<>> standing for a group that did not take part (None).
MatchAt(line, i, keyword) ==
    LET j == SkipWs(line, i + 1)
        k == SkipWs(line, j + 2)
        m == SkipWs(line, k + 2)
        prefix == /\ i <= Len(line) /\ line[i] = "#"
                  /\ j + 1 <= Len(line)
                  /\ Upper(line[j]) = "SERGEY" /\ line[j + 1] = ":"
                  /\ k <= Len(line) /\ Upper(line[k]) = Upper(keyword)
        listed == /\ prefix
                  /\ k + 1 <= Len(line) /\ line[k + 1] = ":"
                  /\ m <= Len(line) /\ line[m] \in Alnum
    IN  [matched |-> prefix,
         group   |-> IF listed THEN SubSeq(line, m, CaptureEnd(line, m)) ELSE <<>>]

\* pattern.search(line_text): the leftmost match.
Search(line, keyword) ==
    LET hits == {i \in 1..Len(line) : line[i] = "#" /\ MatchAt(line, i, keyword).matched}
    IN  IF hits = {} THEN [matched |-> FALSE, group |-> <<>>]
        ELSE MatchAt(line, CHOOSE i \in hits : \A h \in hits : i <= h, keyword)

_LINE_NOQA_PAT(line) == Search(line, "noqa")

_FILE_DISABLE_PAT(line) == Search(line, "disable-file")

RECURSIVE Strip(_)
\* str.strip(): leading and trailing whitespace removed.
Strip(toks) ==
    IF toks = <<>> THEN <<>>
    ELSE IF Head(toks) \in Whitespace THEN Strip(Tail(toks))
    ELSE IF toks[Len(toks)] \in Whitespace THEN Strip(SubSeq(toks, 1, Len(toks) - 1))
    ELSE toks

RECURSIVE SplitComma(_, _)
\* str.split(","): the parts between the commas.
SplitComma(toks, cur) ==
    IF toks = <<>> THEN <<cur>>
    ELSE IF Head(toks) = "," THEN <<cur>> \o SplitComma(Tail(toks), <<>>)
    ELSE SplitComma(Tail(toks), Append(cur, Head(toks)))

\* A suppression set: every rule (Python's None) or the listed ids.
AllRuleIds == [all |-> TRUE, ids |-> {}]

_rule_ids(raw) ==
    IF raw = <<>> \/ Strip(raw) = <<>> THEN AllRuleIds
    ELSE LET ids == {UpperSeq(Strip(part)) : part \in Range(SplitComma(raw, <<>>))}
                    \ {<<>>}
         IN  IF ids = {} THEN AllRuleIds ELSE [all |-> FALSE, ids |-> ids]

\* A reading in which only a listed id is covered, a bare directive covering
\* nothing.
ListedOnlyCovers(suppressed, rule_id) == <<rule_id>> \in suppressed.ids

\* None means all rules are suppressed.
_covers(suppressed, rule_id) == suppressed.all \/ <<rule_id>> \in suppressed.ids

RECURSIVE FirstLineScan(_, _, _)
\* A reading in which a disable-file directive counts on the first line of
\* the file only.
FirstLineScan(lines, lineno, st) ==
    IF lineno > Len(lines) THEN st
    ELSE LET file_match == _FILE_DISABLE_PAT(lines[lineno])
             line_match == _LINE_NOQA_PAT(lines[lineno])
             st1 == IF file_match.matched /\ lineno = 1
                    THEN [st EXCEPT !.file_sup_active = TRUE,
                                    !.file_sup_rules = _rule_ids(file_match.group)]
                    ELSE st
             st2 == IF line_match.matched
                    THEN [st1 EXCEPT !.line_sups =
                             (lineno :> _rule_ids(line_match.group)) @@ st1.line_sups]
                    ELSE st1
         IN  FirstLineScan(lines, lineno + 1, st2)

RECURSIVE FirstDirectiveScan(_, _, _)
\* A reading in which the first disable-file directive of the file stays
\* in effect and the later ones are passed over.
FirstDirectiveScan(lines, lineno, st) ==
    IF lineno > Len(lines) THEN st
    ELSE LET file_match == _FILE_DISABLE_PAT(lines[lineno])
             line_match == _LINE_NOQA_PAT(lines[lineno])
             st1 == IF file_match.matched /\ ~st.file_sup_active
                    THEN [st EXCEPT !.file_sup_active = TRUE,
                                    !.file_sup_rules = _rule_ids(file_match.group)]
                    ELSE st
             st2 == IF line_match.matched
                    THEN [st1 EXCEPT !.line_sups =
                             (lineno :> _rule_ids(line_match.group)) @@ st1.line_sups]
                    ELSE st1
         IN  FirstDirectiveScan(lines, lineno + 1, st2)

RECURSIVE ScanLines(_, _, _)
\* The loop over enumerate(lines, start=1): later disable-file directives
\* overwrite the record of earlier ones, noqa directives are kept per line.
ScanLines(lines, lineno, st) ==
    IF lineno > Len(lines) THEN st
    ELSE LET file_match == _FILE_DISABLE_PAT(lines[lineno])
             line_match == _LINE_NOQA_PAT(lines[lineno])
             st1 == IF file_match.matched
                    THEN [st EXCEPT !.file_sup_active = TRUE,
                                    !.file_sup_rules = _rule_ids(file_match.group)]
                    ELSE st
             st2 == IF line_match.matched
                    THEN [st1 EXCEPT !.line_sups =
                             (lineno :> _rule_ids(line_match.group)) @@ st1.line_sups]
                    ELSE st1
         IN  ScanLines(lines, lineno + 1, st2)

Suppressions(text) ==
    ScanLines(SplitLines(text), 1,
              [file_sup_active |-> FALSE, file_sup_rules |-> AllRuleIds,
               line_sups |-> <<>>])

Suppressed(sup, diag) ==
    \/ sup.file_sup_active /\ _covers(sup.file_sup_rules, diag.rule_id)
    \/ /\ diag.line \in DOMAIN sup.line_sups
       /\ _covers(sup.line_sups[diag.line], diag.rule_id)

\* The scan of the lines is done once and bound to `sup`, as the locals
\* file_sup_active, file_sup_rules and line_sups are; then the filter.
_apply_suppressions(diagnostics, text) ==
    CHOOSE kept \in {LET Keep(diag) == ~Suppressed(sup, diag)
                      IN  SelectSeq(diagnostics, Keep) : sup \in {Suppressions(text)}} : TRUE

(***************************************************************************)
(* The parser (ast.parse) and the syntax tree.  A statement is named by    *)
(* its text; a dotted module name is the sequence of its components.       *)
(* The tree is the sequence of the statement nodes in ast.walk order.      *)
(***************************************************************************)
Alias(name) == [name |-> name, asname |-> None]

Import(line, col, end_col, names) ==
    [type |-> "Import", line |-> line, col |-> col, end_line |-> line,
     end_col |-> end_col, names |-> names, module |-> <<>>, level |-> 0,
     docstring |-> FALSE, deep |-> FALSE, body |-> <<>>]

ImportFrom(line, col, end_col, module, names) ==
    [type |-> "ImportFrom", line |-> line, col |-> col, end_line |-> line,
     end_col |-> end_col, names |-> names, module |-> module, level |-> 0,
     docstring |-> FALSE, deep |-> FALSE, body |-> <<>>]

\* A list-literal assignment `target = [...]` in a function body.
AssignList(line, col, end_col, target) ==
    [type |-> "Assign", line |-> line, col |-> col, end_line |-> line,
     end_col |-> end_col, target |-> target]

FunctionDef(line, col, end_col, docstring, deep, body) ==
    [type |-> "FunctionDef", line |-> line, col |-> col, end_line |-> line,
     end_col |-> end_col, names |-> <<>>, module |-> <<>>, level |-> 0,
     docstring |-> docstring, deep |-> deep, body |-> body]

\* Statements whose text the parser rejects with a SyntaxError.
SyntaxErrorStmts == {"import"}

\* Statements the parser cannot encode (a lone surrogate in a literal):
\* ast.parse raises UnicodeEncodeError, which is no SyntaxError.
UnencodableStmts == {"x = '<lone surrogate>'"}

\* A function with a docstring whose body holds an expression nested more
\* deeply than the interpreter's recursion limit (a sum of 1200 terms).
DeepStmt == "def g(): 'doc'; total = a+a+...+a"

\* The nodes of one statement starting on `line`, in ast.walk order.
StmtNodes(stmt, line) ==
    CASE stmt = "import typing, os.path" ->
            <<Import(line, 0, 22, <<Alias(<<"typing">>), Alias(<<"os", "path">>)>>)>>
      [] stmt = "import typing; import os.path" ->
            <<Import(line, 0, 13, <<Alias(<<"typing">>)>>),
              Import(line, 15, 29, <<Alias(<<"os", "path">>)>>)>>
      [] stmt = "import os.path, a.b" ->
            <<Import(line, 0, 19, <<Alias(<<"os", "path">>), Alias(<<"a", "b">>)>>)>>
      [] stmt = "import os.path" ->
            <<Import(line, 0, 14, <<Alias(<<"os", "path">>)>>)>>
      [] stmt = "import typing" ->
            <<Import(line, 0, 13, <<Alias(<<"typing">>)>>)>>
      [] stmt = "from os import path" ->
            <<ImportFrom(line, 0, 19, <<"os">>, <<Alias(<<"path">>)>>)>>
      [] stmt = "from pkg import mod" ->
            <<ImportFrom(line, 0, 19, <<"pkg">>, <<Alias(<<"mod">>)>>)>>
      [] stmt = "def f(): colors = [1]" ->
            <<FunctionDef(line, 0, 21, FALSE, FALSE,
                          <<AssignList(line, 9, 21, "colors")>>)>>
      [] stmt = DeepStmt ->
            <<FunctionDef(line, 0, 5000, TRUE, TRUE, <<>>)>>
      [] OTHER -> <<>>

RECURSIVE TreeNodes(_, _)
TreeNodes(src, line) ==
    IF line > Len(src) THEN <<>>
    ELSE StmtNodes(src[line].stmt, line) \o TreeNodes(src, line + 1)

\* ast.parse(source): the tree, or the exception it raises.  The text is
\* encoded before it is tokenized, so an unencodable text fails first.
Parse(src) ==
    IF \E i \in 1..Len(src) : src[i].stmt \in UnencodableStmts
    THEN [kind |-> "UnicodeEncodeError", nodes |-> <<>>]
    ELSE IF \E i \in 1..Len(src) : src[i].stmt \in SyntaxErrorStmts
    THEN [kind |-> "SyntaxError", nodes |-> <<>>]
    ELSE [kind |-> "tree", nodes |-> TreeNodes(src, 1)]

(***************************************************************************)
(* Diagnostics and fixes.                                                  *)
(***************************************************************************)
NoFix == [present |-> FALSE, replacement |-> <<>>, additional_edits |-> <<>>]

Fix(replacement, additional_edits) ==
    [present |-> TRUE, replacement |-> replacement,
     additional_edits |-> additional_edits]

\* One further edit of a fix: a span and its replacement.
TextEdit(line, col, end_line, end_col, replacement) ==
    [line |-> line, col |-> col, end_line |-> end_line, end_col |-> end_col,
     replacement |-> replacement]

Diagnostic(rule_id, message, node, fix) ==
    [rule_id |-> rule_id, message |-> message, line |-> node.line,
     col |-> node.col, end_line |-> node.end_line, end_col |-> node.end_col,
     fix |-> fix]

(***************************************************************************)
(* The rules.  A rule instance is a record carrying its type name; check   *)
(* gives the diagnostics, the exception that escaped it (None if none) and *)
(* the modules it caused to be imported.                                   *)
(***************************************************************************)
Rule(name) == [name |-> name]

\* type(rule).__name__
TypeName(rule) == rule.name

_IMP001_EXCLUDED ==
    {<<"__future__">>, <<"typing">>, <<"typing_extensions">>, <<"collections", "abc">>}

_TYPING_MODULES == {<<"typing">>, <<"typing_extensions">>}

_IMP003_EXCLUDED == {<<"collections", "abc">>}

\* A reading in which resolution answers from the module cache alone: a
\* name resolves only once its parent package has been imported.
CachedSubmodule(parent, name, environment) ==
    (parent \o name) \in environment /\ parent \in loaded

\* importlib.util.find_spec(f"{parent}.{name}") is not None, any exception
\* read as False: whether the environment resolves the dotted name.
_is_submodule(parent, name, environment) == (parent \o name) \in environment

\* find_spec imports the parent package, when there is one to import.
FindSpecLoads(parent, environment) ==
    IF parent \in environment THEN {parent} ELSE {}

ImportStmt(module) == [kind |-> "import", module |-> module, names |-> <<>>]

FromImportStmt(module, names) == [kind |-> "from", module |-> module, names |-> names]

\* str.rpartition("."): the parent of a dotted name, and its last component.
Parent(name) == SubSeq(name, 1, Len(name) - 1)

LastName(name) == name[Len(name)]

\* The replacement is the sequence of the statements that are joined with
\* a line break and the node's indentation.
_imp003_fix(node) ==
    Fix([i \in 1..Len(node.names) |->
            LET name == node.names[i].name
            IN  IF Len(name) > 1 /\ name \notin _IMP003_EXCLUDED
                THEN FromImportStmt(Parent(name), <<LastName(name)>>)
                ELSE ImportStmt(name)], <<>>)

_imp001_fix(node, bad_aliases) ==
    LET IsGood(alias) == \A i \in 1..Len(bad_aliases) : bad_aliases[i] # alias
        good_aliases == SelectSeq(node.names, IsGood)
        kept == IF good_aliases = <<>> THEN <<>>
                ELSE <<FromImportStmt(node.module,
                          Concat([i \in 1..Len(good_aliases) |-> good_aliases[i].name]))>>
    IN  IF node.module = <<>> THEN NoFix
        ELSE Fix(kept \o <<ImportStmt(node.module)>>, <<>>)

IMP001Node(node, environment) ==
    IF node.type # "ImportFrom" \/ node.module \in _IMP001_EXCLUDED THEN <<>>
    ELSE LET IsBad(alias) == ~_is_submodule(node.module, alias.name, environment)
             bad_aliases == IF node.level = 0 /\ node.module # <<>>
                            THEN SelectSeq(node.names, IsBad)
                            ELSE node.names
         IN  IF bad_aliases = <<>> THEN <<>>
             ELSE <<Diagnostic("IMP001",
                       <<"IMP001">> \o Concat([i \in 1..Len(bad_aliases) |->
                                                  bad_aliases[i].name]) \o node.module,
                       node, _imp001_fix(node, bad_aliases))>>

IMP001Loads(node, environment) ==
    IF /\ node.type = "ImportFrom" /\ node.module \notin _IMP001_EXCLUDED
       /\ node.level = 0 /\ node.module # <<>> /\ node.names # <<>>
    THEN FindSpecLoads(node.module, environment)
    ELSE {}

IMP002Node(node) ==
    IF node.type # "Import" THEN <<>>
    ELSE LET IsTyping(alias) == alias.name \in _TYPING_MODULES
             hits == SelectSeq(node.names, IsTyping)
         IN  [i \in 1..Len(hits) |->
                 Diagnostic("IMP002", <<"IMP002">> \o hits[i].name, node, NoFix)]

IMP003Node(node) ==
    IF node.type # "Import" THEN <<>>
    ELSE LET IsDotted(alias) ==
                 Len(alias.name) > 1 /\ alias.name \notin _IMP003_EXCLUDED
             hits == SelectSeq(node.names, IsDotted)
         IN  [i \in 1..Len(hits) |->
                 Diagnostic("IMP003", <<"IMP003">> \o hits[i].name, node,
                            _imp003_fix(node))]

\* STR004._check_function: one diagnostic per list literal of the function
\* that is never modified, located at the assignment.
STR004Node(node) ==
    IF node.type # "FunctionDef" THEN <<>>
    ELSE [i \in 1..Len(node.body) |->
             Diagnostic("STR004", <<"STR004", node.body[i].target>>,
                        node.body[i], NoFix)]

\* The helpers that descend the tree by recursion (_has_explicit_raise for
\* DOC001, _iter_scope for STR004) exceed the recursion limit on a deep node.
DOC001Fails(node) == node.type = "FunctionDef" /\ node.docstring /\ node.deep

STR004Fails(node) == node.type = "FunctionDef" /\ node.deep

\* The rules whose check wraps its loop in try / except Exception: pass.
GuardedRules == {"STR002", "STR003", "STR004", "PDT002"}

NodeDiags(rule, node, environment) ==
    CASE TypeName(rule) = "IMP001" -> IMP001Node(node, environment)
      [] TypeName(rule) = "IMP002" -> IMP002Node(node)
      [] TypeName(rule) = "IMP003" -> IMP003Node(node)
      [] TypeName(rule) = "STR004" -> STR004Node(node)
      [] OTHER -> <<>>

NodeFails(rule, node) ==
    CASE TypeName(rule) = "DOC001" -> DOC001Fails(node)
      [] TypeName(rule) = "STR004" -> STR004Fails(node)
      [] OTHER -> FALSE

NodeLoads(rule, node, environment) ==
    IF TypeName(rule) = "IMP001" THEN IMP001Loads(node, environment) ELSE {}

RECURSIVE CheckLoop(_, _, _, _)
\* The loop of a check over the nodes: the diagnostics appended before the
\* loop ended or an exception left it.
CheckLoop(rule, nodes, environment, acc) ==
    IF nodes = <<>> THEN acc
    ELSE IF NodeFails(rule, Head(nodes))
         THEN [acc EXCEPT !.raised = "RecursionError"]
         ELSE CheckLoop(rule, Tail(nodes), environment,
                        [acc EXCEPT !.diagnostics =
                                        @ \o NodeDiags(rule, Head(nodes), environment),
                                    !.loads =
                                        @ \cup NodeLoads(rule, Head(nodes), environment)])

\* rule.check(tree, source): a guarded rule swallows the exception and
\* returns the diagnostics it had appended; any other rule lets it escape.
Check(rule, nodes, environment) ==
    LET r == CheckLoop(rule, nodes, environment,
                       [raised |-> None, diagnostics |-> <<>>, loads |-> {}])
    IN  IF r.raised # None /\ TypeName(rule) \in GuardedRules
        THEN [r EXCEPT !.raised = None]
        ELSE r

(***************************************************************************)
(* Analyzer.analyze.                                                       *)
(***************************************************************************)
\* A reading in which the sort key is the line alone.
LineOnlyLeq(d1, d2) == d1.line <= d2.line

\* The sort key (diag.line, diag.col), compared lexicographically.
KeyLeq(d1, d2) == d1.line < d2.line \/ (d1.line = d2.line /\ d1.col <= d2.col)

RECURSIVE InsertSorted(_, _)
\* d placed after every element whose key is not greater than its own.
InsertSorted(sorted, d) ==
    IF sorted = <<>> THEN <<d>>
    ELSE IF KeyLeq(Head(sorted), d)
         THEN <<Head(sorted)>> \o InsertSorted(Tail(sorted), d)
         ELSE <<d>> \o sorted

RECURSIVE SortAcc(_, _)
SortAcc(diags, sorted) ==
    IF diags = <<>> THEN sorted
    ELSE SortAcc(Tail(diags), InsertSorted(sorted, Head(diags)))

\* sorted(diagnostics, key=lambda diag: (diag.line, diag.col)): stable.
Sorted(diags) == SortAcc(diags, <<>>)

RECURSIVE RunRules(_, _, _, _)
\* [diag for rule in self.rules for diag in rule.check(tree, source)]:
\* the rules run in order, and an exception ends the comprehension.
RunRules(rs, nodes, environment, acc) ==
    IF rs = <<>> THEN acc
    ELSE LET r == Check(Head(rs), nodes, environment)
             acc1 == [acc EXCEPT !.ran = Append(@, Head(rs)),
                                 !.loads = @ \cup r.loads]
         IN  IF r.raised # None
             THEN [acc1 EXCEPT !.raised = r.raised]
             ELSE RunRules(Tail(rs), nodes, environment,
                           [acc1 EXCEPT !.diagnostics = @ \o r.diagnostics])

\* The body of analyze after ast.parse gave `tree`.  The comprehension is
\* evaluated once and bound to `run`, as the local `diagnostics` is.
AnalyzeTree(rs, src, environment, tree) ==
    IF tree.kind = "SyntaxError"
    THEN [kind |-> "returned", exc |-> None, diagnostics |-> <<>>,
          ran |-> <<>>, loads |-> {}]
    ELSE IF tree.kind # "tree"
    THEN [kind |-> "raised", exc |-> tree.kind, diagnostics |-> <<>>,
          ran |-> <<>>, loads |-> {}]
    ELSE CHOOSE result \in
           {IF run.raised # None
            THEN [kind |-> "raised", exc |-> run.raised, diagnostics |-> <<>>,
                  ran |-> run.ran, loads |-> run.loads]
            ELSE [kind |-> "returned", exc |-> None,
                  diagnostics |-> _apply_suppressions(Sorted(run.diagnostics),
                                                      SourceText(src)),
                  ran |-> run.ran, loads |-> run.loads] :
            run \in {RunRules(rs, tree.nodes, environment,
                              [raised |-> None, diagnostics |-> <<>>,
                               ran |-> <<>>, loads |-> {}])}} : TRUE

\* What one call gives: kind "returned" with the diagnostics or "raised"
\* with the exception; the rules whose check was called; the modules the
\* call caused to be imported.  ast.parse is called once and its outcome
\* bound to `tree`.
Analyze(rs, src, environment) ==
    CHOOSE result \in
        {AnalyzeTree(rs, src, environment, tree) : tree \in {Parse(src)}} : TRUE

(***************************************************************************)
(* The configuration resolver: Config, filter_rules, configure_rules.      *)
(***************************************************************************)
_DEFAULT_MAX_TRY_BODY == 4

\* An STR003 instance with its threshold.
STR003(max_body_stmts) == [name |-> "STR003", max_body_stmts |-> max_body_stmts]

\* The catalog, in registry order.
ALL_RULES ==
    <<Rule("DOC001"), Rule("IMP001"), Rule("IMP002"), Rule("IMP003"),
      Rule("IMP004"), Rule("NAM001"), Rule("NAM002"), Rule("NAM003"),
      Rule("PDT001"), Rule("PDT002"), Rule("STR002"),
      STR003(_DEFAULT_MAX_TRY_BODY), Rule("STR004")>>

\* Config.select: None, or a set of rule ids.
NoSelect == [present |-> FALSE, ids |-> {}]

Select(ids) == [present |-> TRUE, ids |-> ids]

\* rule_options maps a rule id to a table of options; an option value
\* carries its Python type.
Config(select, ignore, rule_options) ==
    [select |-> select, ignore |-> ignore, rule_options |-> rule_options]

IntOpt(v) == [type |-> "int", value |-> v]

StrOpt(v) == [type |-> "str", value |-> v]

\* isinstance(value, int)
IsInt(opt) == opt.type \in {"int", "bool"}

\* if config.select is not None: keep the rules whose type name is in it.
SelectFilter(rs, cfg) ==
    IF cfg.select.present
    THEN LET Selected(rule) == TypeName(rule) \in cfg.select.ids
         IN  SelectSeq(rs, Selected)
    ELSE rs

\* A reading in which a rule named in select is kept even when ignored.
IgnoreUnlessSelected(rs, cfg) ==
    IF cfg.ignore # {}
    THEN LET Kept(rule) ==
                 \/ TypeName(rule) \notin cfg.ignore
                 \/ cfg.select.present /\ TypeName(rule) \in cfg.select.ids
         IN  SelectSeq(rs, Kept)
    ELSE rs

\* A reading in which filter_rules applies select and forgets ignore.
SelectOnly(rs, cfg) == SelectFilter(rs, cfg)

\* if config.ignore: drop the rules whose type name is in it.
IgnoreFilter(rs, cfg) ==
    IF cfg.ignore # {}
    THEN LET Kept(rule) == TypeName(rule) \notin cfg.ignore
         IN  SelectSeq(rs, Kept)
    ELSE rs

filter_rules(rs, cfg) == IgnoreFilter(SelectFilter(rs, cfg), cfg)

\* The rule types that define configure: the base class declares check
\* only, and STR003 is the one rule with a configure method.
HasConfigure(rule) == TypeName(rule) = "STR003"

\* options.get("max_body_stmts", self._max_body_stmts)
MaxBodyStmtsOption(rule, options) ==
    IF "max_body_stmts" \in DOMAIN options
    THEN options["max_body_stmts"]
    ELSE IntOpt(rule.max_body_stmts)

\* STR003.configure(options)
Configure(rule, options) ==
    IF IsInt(MaxBodyStmtsOption(rule, options))
    THEN STR003(MaxBodyStmtsOption(rule, options).value)
    ELSE rule

\* config.rule_options.get(type(rule).__name__, {})
OptionsFor(rule, cfg) ==
    IF TypeName(rule) \in DOMAIN cfg.rule_options
    THEN cfg.rule_options[TypeName(rule)]
    ELSE <<>>

NotConfigured == [kind |-> "none", exc |-> None, result |-> <<>>]

RECURSIVE ConfigureLoop(_, _, _)
\* The loop of configure_rules: rule.configure(opts) if opts else rule; the
\* attribute lookup fails on a rule without a configure method.
ConfigureLoop(rs, cfg, result) ==
    IF rs = <<>> THEN [kind |-> "returned", exc |-> None, result |-> result]
    ELSE IF DOMAIN OptionsFor(Head(rs), cfg) = {}
    THEN ConfigureLoop(Tail(rs), cfg, Append(result, Head(rs)))
    ELSE IF ~HasConfigure(Head(rs))
    THEN [kind |-> "raised", exc |-> "AttributeError", result |-> <<>>]
    ELSE ConfigureLoop(Tail(rs), cfg,
                       Append(result, Configure(Head(rs), OptionsFor(Head(rs), cfg))))

configure_rules(active_rules, cfg) == ConfigureLoop(active_rules, cfg, <<>>)

(***************************************************************************)
(* The analyzer as a state machine: one analyzer (its rule list fixed at   *)
(* construction) analyzing a document, in a process whose module cache     *)
(* and module-resolution environment outlive the calls.                    *)
(***************************************************************************)
MaxLines == 2

MaxCalls == 3

Comment(scope, ids) == [scope |-> scope, ids |-> ids]

Line(stmt, comment) == [stmt |-> stmt, comment |-> comment]

SeqsUpTo(S, n) == UNION {[1..k -> S] : k \in 1..n}

\* The suppression comments of the pipeline's sources.
Comments ==
    {NoComment,
     Comment("noqa", <<>>),
     Comment("noqa", <<"IMP003">>),
     Comment("noqa", <<"imp002", "IMP001">>),
     Comment("disable-file", <<>>),
     Comment("disable-file", <<"IMP003">>),
     Comment("disable-file", <<"IMP002">>)}

PipelineStmts ==
    {"pass", "import typing, os.path", "import typing; import os.path",
     "import os.path, a.b"}

PipelineSources ==
    SeqsUpTo({Line(st, c) : st \in PipelineStmts, c \in Comments}, MaxLines)

PipelineRuleLists ==
    {<<Rule("IMP002"), Rule("IMP003")>>,
     <<Rule("IMP003"), Rule("IMP002")>>,
     <<Rule("IMP001"), Rule("IMP003"), Rule("STR004")>>}

\* The documents of a session: statements that parse, that do not parse,
\* and that make a recursive helper fail.
SessionStmts ==
    {"pass", "from pkg import mod", "def f(): colors = [1]", DeepStmt}
    \cup SyntaxErrorStmts \cup UnencodableStmts

SessionSources ==
    SeqsUpTo({Line(st, NoComment) : st \in SessionStmts}, MaxLines)

SessionRuleLists ==
    {<<Rule("DOC001"), Rule("IMP001"), Rule("STR004")>>,
     <<Rule("STR004"), Rule("IMP001")>>,
     <<Rule("IMP001")>>}

\* Other documents analyzed by the same process between two analyses.
OtherSources == {<<Line("from pkg import mod", NoComment)>>}

\* Environments: package pkg installed with its submodule mod, installed
\* without it, and not installed.
Environments == {{<<"pkg">>, <<"pkg", "mod">>}, {<<"pkg">>}, {}}

DefaultEnvironment == {<<"pkg">>, <<"pkg", "mod">>}

NotCalled ==
    [kind |-> "none", exc |-> None, diagnostics |-> <<>>, ran |-> <<>>, env |-> {}]

\* What the caller of analyze sees, with the environment the call ran in.
CallOutcome(r, environment) ==
        [kind |-> r.kind, exc |-> r.exc, diagnostics |-> r.diagnostics,
         ran |-> r.ran, env |-> environment]

FixIdle ==
    /\ farg = <<>> /\ fsource = <<>> /\ fdiags = <<>>
    /\ all_edits = <<>> /\ pending = <<>>
    /\ fpc = "idle"

ConfigIdle ==
    /\ all_rules = <<>> /\ config = Config(NoSelect, {}, <<>>)
    /\ active = <<>> /\ configured = NotConfigured /\ cpc = "idle"

AnalyzerIdle ==
    /\ rules = <<>> /\ source = <<>> /\ env = {} /\ loaded = {}
    /\ outcome = NotCalled /\ first = NotCalled /\ calls = 0

NoCall == [receiver |-> 0, options |-> <<>>, returned |-> 0]

InstancesIdle == instances = <<>> /\ created = <<>> /\ call = NoCall

\* load_config was not called.
NotLoaded == [raised |-> None, config |-> Config(NoSelect, {}, <<>>),
              opened |-> {}, returned |-> FALSE]

LoaderIdle == fs = <<>> /\ loadres = NotLoaded

\* No whitespace anywhere it is optional.
NoGaps == [hash |-> <<>>, pre1 |-> <<>>, post1 |-> <<>>, pre2 |-> <<>>,
           post2 |-> <<>>, precomma |-> <<>>, postcomma |-> <<>>]

NotScanned ==
    [scanned |-> FALSE, dropped |-> FALSE,
     sup |-> [file_sup_active |-> FALSE, file_sup_rules |-> AllRuleIds,
              line_sups |-> <<>>]]

DirectiveIdle ==
    /\ directive = [keyword |-> "", ids |-> <<>>, gaps |-> NoGaps]
    /\ drule = "" /\ dres = NotScanned

NoEvent == [kind |-> "none", uri |-> "", sent |-> <<>>]

ServerIdle == workspace = <<>> /\ published = <<>> /\ event = NoEvent

NotStarted ==
    [pc |-> "idle", rules |-> <<>>, pos |-> 0, found_any |-> FALSE,
     exit_code |-> -1, raised |-> None]

CheckIdle ==
    /\ args = [ok |-> TRUE, fix |-> FALSE] /\ project = <<>> /\ disk = <<>>
    /\ proc = NotStarted
    /\ stdout = <<>> /\ stderr = <<>> /\ processed = <<>>

ThreadsIdle == threads = <<>>

NotChecked == [done |-> FALSE, diagnostics |-> <<>>]

StructureIdle == parsed = <<>> /\ reported = NotChecked

NewIdle == ThreadsIdle /\ StructureIdle

OtherIdle ==
    /\ InstancesIdle /\ LoaderIdle /\ DirectiveIdle /\ ServerIdle /\ CheckIdle
    /\ NewIdle

Init ==
    /\ rules \in PipelineRuleLists
    /\ source \in PipelineSources
    /\ env = DefaultEnvironment
    /\ loaded = {}
    /\ outcome = NotCalled /\ first = NotCalled /\ calls = 0
    /\ FixIdle /\ ConfigIdle /\ OtherIdle

SessionInit ==
    /\ rules \in SessionRuleLists
    /\ source \in SessionSources
    /\ env \in Environments
    /\ loaded = {}
    /\ outcome = NotCalled /\ first = NotCalled /\ calls = 0
    /\ FixIdle /\ ConfigIdle /\ OtherIdle

\* analyzer.analyze(source) on the document.
AnalyzeCall ==
    /\ calls < MaxCalls
    /\ \E r \in {Analyze(rules, source, env)} :
          /\ outcome' = CallOutcome(r, env)
          /\ loaded' = loaded \cup r.loads
    /\ first' = IF calls = 0 THEN outcome' ELSE first
    /\ calls' = calls + 1
    /\ UNCHANGED <<rules, source, env, fvars, cvars, ovars>>

\* The one analysis of a document by the batch driver.
AnalyzeOnce == calls = 0 /\ AnalyzeCall

\* analyzer.analyze on another document, between two analyses of this one.
AnalyzeOther ==
    /\ calls < MaxCalls
    /\ \E other \in OtherSources :
          loaded' = loaded \cup Analyze(rules, other, env).loads
    /\ UNCHANGED <<rules, source, env, outcome, first, calls, fvars, cvars, ovars>>

\* A package is installed, upgraded or removed while the process lives.
EnvChange ==
    /\ calls < MaxCalls
    /\ env' \in Environments \ {env}
    /\ UNCHANGED <<rules, source, loaded, outcome, first, calls, fvars, cvars, ovars>>

Next == AnalyzeOnce

Spec == Init /\ [][Next]_vars

SessionNext == AnalyzeCall \/ AnalyzeOther \/ EnvChange

SpecSession == SessionInit /\ [][SessionNext]_vars

(***************************************************************************)
(* Suppression resolution and ordering, stated on the documents as they    *)
(* were written (statement and comment of each physical line) rather than  *)
(* on what the patterns read back from the text.                           *)
(***************************************************************************)
\* The diagnostics the rules give on the document, in the order the
\* comprehension of analyze yields them.
Emitted ==
    RunRules(rules, Parse(source).nodes, env,
             [raised |-> None, diagnostics |-> <<>>, ran |-> <<>>,
              loads |-> {}]).diagnostics

\* The directive written in `comment` covers rule_id: a bare directive
\* covers every rule, a directive with a list covers the listed ids.
DirectiveCovers(comment, rule_id) ==
    \/ comment.ids = <<>>
    \/ \E i \in 1..Len(comment.ids) : Upper(comment.ids[i]) = rule_id

DisableFileLines ==
    {n \in 1..Len(source) : source[n].comment.scope = "disable-file"}

\* The disable-file directive in effect: the last one written.
DisableFileInEffect ==
    source[CHOOSE n \in DisableFileLines : \A m \in DisableFileLines : m <= n].comment

DirectiveDrops(diag) ==
    \/ /\ DisableFileLines # {}
       /\ DirectiveCovers(DisableFileInEffect, diag.rule_id)
    \/ /\ source[diag.line].comment.scope = "noqa"
       /\ DirectiveCovers(source[diag.line].comment, diag.rule_id)

DirectiveKeeps(diag) == ~DirectiveDrops(diag)

\* C1: suppression resolution drops a diagnostic if and only if the
\* disable-file directive in effect covers its rule id or a noqa directive
\* written on its start line covers its rule id; every other diagnostic is
\* returned unchanged and in its original relative order.
C1_SuppressionDropsExactlyCovered ==
    outcome.kind = "returned" =>
        outcome.diagnostics = SelectSeq(Sorted(Emitted), DirectiveKeeps)

\* A document analyzed with one diagnostic dropped by a bare noqa on its
\* line, and one kept although its own line carries a noqa naming another
\* rule and a bare noqa stands on a different line.
C1_Witness ==
    /\ outcome.kind = "returned"
    /\ \E d \in Range(Emitted) :
          /\ source[d.line].comment = [scope |-> "noqa", ids |-> <<>>]
          /\ d \notin Range(outcome.diagnostics)
    /\ \E d \in Range(outcome.diagnostics) :
          /\ source[d.line].comment = [scope |-> "noqa", ids |-> <<"IMP003">>]
          /\ d.rule_id = "IMP002"
          /\ \E n \in 1..Len(source) :
                n # d.line /\ source[n].comment = [scope |-> "noqa", ids |-> <<>>]

\* The position at which the comprehension of analyze yielded a diagnostic.
EmittedAt(diag) == CHOOSE i \in 1..Len(Emitted) : Emitted[i] = diag

\* The position in the analyzer's rule list of the rule that gave it.
RuleIndex(diag) == CHOOSE i \in 1..Len(rules) : TypeName(rules[i]) = diag.rule_id

\* C2: the sequence analyze returns is ordered by (line, col) ascending;
\* diagnostics with equal (line, col) stand in the order of their rules in
\* the rule list and, within one rule, in emission order; suppression
\* filtering does not disturb the order.
C2_OrderedByLineColThenRule ==
    outcome.kind = "returned" =>
        \A i, j \in 1..Len(outcome.diagnostics) :
            i < j =>
                LET d1 == outcome.diagnostics[i]
                    d2 == outcome.diagnostics[j]
                IN  /\ \/ d1.line < d2.line
                       \/ d1.line = d2.line /\ d1.col <= d2.col
                    /\ (d1.line = d2.line /\ d1.col = d2.col) =>
                           /\ RuleIndex(d1) <= RuleIndex(d2)
                           /\ EmittedAt(d1) < EmittedAt(d2)

\* An analysis whose rules emitted out of (line, col) order, that returned
\* two diagnostics of different rules at one position, the later rule of
\* the catalog standing first in the rule list, and from which suppression
\* removed a diagnostic.
C2_Witness ==
    /\ outcome.kind = "returned"
    /\ \E i, j \in 1..Len(Emitted) :
          /\ i < j
          /\ \/ Emitted[j].line < Emitted[i].line
             \/ Emitted[j].line = Emitted[i].line /\ Emitted[j].col < Emitted[i].col
    /\ \E i, j \in 1..Len(outcome.diagnostics) :
          /\ i < j
          /\ outcome.diagnostics[i].line = outcome.diagnostics[j].line
          /\ outcome.diagnostics[i].col = outcome.diagnostics[j].col
          /\ outcome.diagnostics[i].rule_id = "IMP003"
          /\ outcome.diagnostics[j].rule_id = "IMP002"
    /\ Len(outcome.diagnostics) < Len(Emitted)

\* The document with the comment of line i standing on line j instead.
Moved(src, i, j) ==
    [src EXCEPT ![i].comment = NoComment, ![j].comment = src[i].comment]

\* C15: a single disable-file directive has the same effect on whichever
\* line it stands: the analysis of the document is the one of the same
\* document with the directive on any other line, so the directive also
\* drops the diagnostics of the lines above it.
C15_DisableFileAnyLine ==
    (outcome.kind = "returned" /\ Cardinality(DisableFileLines) = 1) =>
        \A i \in DisableFileLines :
            /\ \A j \in 1..Len(source) :
                   source[j].comment = NoComment =>
                       Analyze(rules, Moved(source, i, j), env).diagnostics
                           = outcome.diagnostics
            /\ \A d \in Range(Emitted) :
                   DirectiveCovers(source[i].comment, d.rule_id)
                       => d \notin Range(outcome.diagnostics)

\* A disable-file directive on the second line that dropped a diagnostic
\* of the first line and kept another one.
C15_Witness ==
    /\ outcome.kind = "returned"
    /\ DisableFileLines = {2}
    /\ source[1].comment = NoComment
    /\ \E d \in Range(Emitted) : d.line = 1 /\ d \notin Range(outcome.diagnostics)
    /\ outcome.diagnostics # <<>>

\* The document with every disable-file directive but the last one taken
\* out.
LastDirectiveOnly(src) ==
    [n \in 1..Len(src) |->
        IF /\ src[n].comment.scope = "disable-file"
           /\ \E m \in n + 1..Len(src) : src[m].comment.scope = "disable-file"
        THEN [src[n] EXCEPT !.comment = NoComment]
        ELSE src[n]]

\* C24: of several disable-file directives only the last one written is in
\* effect, each later one overwriting the record of the earlier: the
\* analysis is the one of the document with the last directive alone, so a
\* bare directive followed by one that lists A drops only A, and one that
\* lists A followed by one that lists B drops B and not A.
C24_LastDisableFileWins ==
    (outcome.kind = "returned" /\ Cardinality(DisableFileLines) >= 2) =>
        /\ outcome.diagnostics =
               Analyze(rules, LastDirectiveOnly(source), env).diagnostics
        /\ \A d \in Range(Emitted) :
               source[d.line].comment.scope # "noqa" =>
                   (d \in Range(outcome.diagnostics)
                       <=> ~DirectiveCovers(DisableFileInEffect, d.rule_id))

\* A directive that lists IMP003 followed by one that lists IMP002: the
\* IMP002 diagnostic is dropped and the IMP003 diagnostic is returned.
C24_Witness ==
    /\ outcome.kind = "returned"
    /\ Len(source) = 2
    /\ source[1].comment = Comment("disable-file", <<"IMP003">>)
    /\ source[2].comment = Comment("disable-file", <<"IMP002">>)
    /\ \E d \in Range(Emitted) : d.rule_id = "IMP002"
    /\ \E i \in 1..Len(outcome.diagnostics) : outcome.diagnostics[i].rule_id = "IMP003"
    /\ \A i \in 1..Len(outcome.diagnostics) : outcome.diagnostics[i].rule_id # "IMP002"

(***************************************************************************)
(* Failure handling and purity of analyze, over a session of calls.        *)
(***************************************************************************)
\* C3: for any input on which parsing fails, analyze returns an empty
\* diagnostic list, runs no rule and never raises to the caller.
C3_ParseFailureGivesEmptyList ==
    (outcome.kind # "none" /\ Parse(source).kind # "tree") =>
        /\ outcome.kind = "returned"
        /\ outcome.diagnostics = <<>>
        /\ outcome.ran = <<>>

\* Some rule's check fails internally on the document.
SomeCheckFails ==
    /\ Parse(source).kind = "tree"
    /\ \E i \in 1..Len(rules) :
          \E n \in 1..Len(Parse(source).nodes) :
              NodeFails(rules[i], Parse(source).nodes[n])

\* The diagnostics of the rules whose check does not fail on the document.
OtherRulesDiagnostics ==
    LET Healthy(rule) ==
            \A n \in 1..Len(Parse(source).nodes) :
                ~NodeFails(rule, Parse(source).nodes[n])
    IN  RunRules(SelectSeq(rules, Healthy), Parse(source).nodes, outcome.env,
                 [raised |-> None, diagnostics |-> <<>>, ran |-> <<>>,
                  loads |-> {}]).diagnostics

\* C4: when the check of one active rule fails internally, analyze still
\* returns, every active rule has been run, the failing rule contributes
\* nothing and the other rules contribute their diagnostics.
C4_RuleFailureNotSurfaced ==
    (outcome.kind # "none" /\ SomeCheckFails) =>
        /\ outcome.kind = "returned"
        /\ outcome.ran = rules
        /\ outcome.diagnostics = Sorted(OtherRulesDiagnostics)

Min(a, b) == IF a <= b THEN a ELSE b

\* s[:n] and s[n:] with Python's clamping of the bound.
SliceTo(s, n) == SubSeq(s, 1, Min(n, Len(s)))

SliceFrom(s, n) == SubSeq(s, Min(n, Len(s)) + 1, Len(s))

\* A reading in which an edit is identified by its span and its text.
SpanAndTextKey(edit) ==
    <<edit.line, edit.col, edit.end_line, edit.end_col, edit.replacement>>

\* The key under which an edit is remembered in `seen`: its span.
SpanKey(edit) == <<edit.line, edit.col, edit.end_line, edit.end_col>>

\* A reading in which every diagnostic is taken to carry a fix.
AlwaysHasFix(diag) == TRUE

\* not (diag.fix is None)
HasFix(diag) == diag.fix.present

\* The diagnostic's own edit: its span with the replacement of its fix.
PrimaryEdit(diag) ==
    TextEdit(diag.line, diag.col, diag.end_line, diag.end_col, diag.fix.replacement)

\* if key not in seen: seen.add(key); all_edits.append(edit)
AddEdit(acc, edit) ==
    IF SpanKey(edit) \in acc.seen THEN acc
    ELSE [seen |-> acc.seen \cup {SpanKey(edit)},
          all_edits |-> Append(acc.all_edits, edit)]

RECURSIVE AddEdits(_, _)
\* The loop over diag.fix.additional_edits.
AddEdits(acc, edits) ==
    IF edits = <<>> THEN acc
    ELSE AddEdits(AddEdit(acc, Head(edits)), Tail(edits))

RECURSIVE CollectEdits(_, _)
\* The loop over the diagnostics.
CollectEdits(diags, acc) ==
    IF diags = <<>> THEN acc
    ELSE IF ~HasFix(Head(diags)) THEN CollectEdits(Tail(diags), acc)
    ELSE CollectEdits(Tail(diags),
                      AddEdits(AddEdit(acc, PrimaryEdit(Head(diags))),
                               Head(diags).fix.additional_edits))

\* The sort key (e[0], e[1]) under reverse=True: e1 stays before e2.
EditKeyGeq(e1, e2) == e1.line > e2.line \/ (e1.line = e2.line /\ e1.col >= e2.col)

RECURSIVE InsertDescending(_, _)
\* e placed after every edit whose key is not smaller than its own.
InsertDescending(sorted, e) ==
    IF sorted = <<>> THEN <<e>>
    ELSE IF EditKeyGeq(Head(sorted), e)
         THEN <<Head(sorted)>> \o InsertDescending(Tail(sorted), e)
         ELSE <<e>> \o sorted

RECURSIVE SortDescendingAcc(_, _)
SortDescendingAcc(edits, sorted) ==
    IF edits = <<>> THEN sorted
    ELSE SortDescendingAcc(Tail(edits), InsertDescending(sorted, Head(edits)))

\* sorted(all_edits, key=lambda e: (e[0], e[1]), reverse=True): stable, so
\* edits with one key keep the order in which they were collected.
SortedDescending(edits) == SortDescendingAcc(edits, <<>>)

RECURSIVE SumLen(_, _)
\* sum(len(lines[i]) for i in range(n))
SumLen(lines, n) ==
    IF n = 0 THEN 0 ELSE Len(lines[n]) + SumLen(lines, n - 1)

\* One pass of the applying loop on `text`: the patched text, or the
\* IndexError of lines[i] when the edit names a line the text lacks.
ApplyOne(text, edit) ==
    LET lines == SplitLinesKeepEnds(text)
    IN  IF edit.line - 1 > Len(lines) \/ edit.end_line - 1 > Len(lines)
        THEN [raised |-> TRUE, text |-> text]
        ELSE LET start == SumLen(lines, edit.line - 1) + edit.col
                 end == SumLen(lines, edit.end_line - 1) + edit.end_col
             IN  [raised |-> FALSE,
                  text |-> SliceTo(text, start) \o edit.replacement
                           \o SliceFrom(text, end)]

(***************************************************************************)
(* _apply_fixes as a state machine: called, edits collected and sorted,    *)
(* edits spliced one by one, returned.                                     *)
(***************************************************************************)
MaxDiags == 2

FixTexts ==
    {<<"a", "b", "c">>,
     <<"a", "b", "\n", "c", "d", "\n">>}

Span(line, col, end_line, end_col) ==
    [line |-> line, col |-> col, end_line |-> end_line, end_col |-> end_col]

\* An insertion point, one character, another character, a character of
\* the second line, a span running over the line break, and an insertion
\* point where that span starts.
FixSpans ==
    {Span(1, 1, 1, 1), Span(1, 1, 1, 2), Span(1, 0, 1, 1), Span(2, 0, 2, 1),
     Span(1, 2, 2, 1), Span(1, 2, 1, 2)}

\* The span lies inside the text: its ends are positions of lines the
\* text has, the start not after the end.
InsideText(text, span) ==
    LET lines == SplitLines(text)
    IN  /\ span.line \in 1..Len(lines) /\ span.end_line \in 1..Len(lines)
        /\ span.col \in 0..Len(lines[span.line])
        /\ span.end_col \in 0..Len(lines[span.end_line])
        /\ \/ span.line < span.end_line
           \/ span.line = span.end_line /\ span.col <= span.end_col

FixChoices ==
    {NoFix,
     Fix(<<"X">>, <<>>),
     Fix(<<"Y", "\n">>, <<>>),
     Fix(<<>>, <<TextEdit(1, 1, 1, 2, <<"Z">>)>>)}

FixDiagnostics(text) ==
    {Diagnostic("R", <<>>, span, fix) :
        span \in {sp \in FixSpans : InsideText(text, sp)}, fix \in FixChoices}

FixInit ==
    /\ farg \in FixTexts
    /\ fsource = farg
    /\ fdiags \in {<<>>} \cup SeqsUpTo(FixDiagnostics(farg), MaxDiags)
    /\ all_edits = <<>> /\ pending = <<>>
    /\ fpc = "collect"
    /\ AnalyzerIdle /\ ConfigIdle /\ OtherIdle

\* Lines 22-40 and the sorted() of line 43.
CollectStep ==
    /\ fpc = "collect"
    /\ all_edits' = CollectEdits(fdiags, [seen |-> {}, all_edits |-> <<>>]).all_edits
    /\ pending' = SortedDescending(all_edits')
    /\ fpc' = "apply"
    /\ UNCHANGED <<farg, fsource, fdiags, avars, cvars, ovars>>

\* One pass of the loop of lines 43-49.
ApplyStep ==
    /\ fpc = "apply" /\ pending # <<>>
    /\ \E r \in {ApplyOne(fsource, Head(pending))} :
          /\ fsource' = r.text
          /\ fpc' = IF r.raised THEN "raised" ELSE "apply"
    /\ pending' = Tail(pending)
    /\ UNCHANGED <<farg, fdiags, all_edits, avars, cvars, ovars>>

\* return source
ReturnStep ==
    /\ fpc = "apply" /\ pending = <<>>
    /\ fpc' = "done"
    /\ UNCHANGED <<farg, fsource, fdiags, all_edits, pending, avars, cvars, ovars>>

FixNext == CollectStep \/ ApplyStep \/ ReturnStep

SpecFix == FixInit /\ [][FixNext]_vars

(***************************************************************************)
(* Properties of the fix applier, stated on offsets into the text the      *)
(* caller passed.                                                          *)
(***************************************************************************)
\* The number of characters before position (line, col) of `text`.
OffsetIn(text, line, col) ==
    IF line = 1 THEN col
    ELSE col + (CHOOSE p \in 1..Len(text) :
                   /\ text[p] = "\n"
                   /\ Cardinality({q \in 1..p : text[q] = "\n"}) = line - 1)

StartIn(text, edit) == OffsetIn(text, edit.line, edit.col)

EndIn(text, edit) == OffsetIn(text, edit.end_line, edit.end_col)

\* No two of the edits share a character of the text.
NonOverlapping(text, edits) ==
    \A i, j \in 1..Len(edits) :
        i # j => \/ EndIn(text, edits[i]) <= StartIn(text, edits[j])
                 \/ EndIn(text, edits[j]) <= StartIn(text, edits[i])

\* What stands in the result for offset p of the text: the text inserted
\* at p, then the replacement of the span starting at p, or nothing inside
\* a replaced span, or the character after p itself.
PieceAt(text, edits, p) ==
    LET inserts == {i \in 1..Len(edits) :
                       StartIn(text, edits[i]) = p /\ EndIn(text, edits[i]) = p}
        starts == {i \in 1..Len(edits) :
                       StartIn(text, edits[i]) = p /\ EndIn(text, edits[i]) > p}
        covers == {i \in 1..Len(edits) :
                       StartIn(text, edits[i]) < p /\ p < EndIn(text, edits[i])}
    IN  (IF inserts = {} THEN <<>> ELSE edits[CHOOSE i \in inserts : TRUE].replacement)
        \o (IF starts # {} THEN edits[CHOOSE i \in starts : TRUE].replacement
            ELSE IF covers # {} \/ p = Len(text) THEN <<>>
            ELSE <<text[p + 1]>>)

\* Every span of the text replaced by its replacement, all at once.
Simultaneous(text, edits) ==
    Concat([k \in 1..(Len(text) + 1) |-> PieceAt(text, edits, k - 1)])

\* C6: for edits whose spans are pairwise non-overlapping, _apply_fixes
\* returns the text in which every span of the source it was given is
\* replaced by its replacement simultaneously.
C6_SimultaneousReplacement ==
    (fpc = "done" /\ NonOverlapping(farg, all_edits)) =>
        fsource = Simultaneous(farg, all_edits)

\* The offsets the applying loop computes for `edit` on the text as
\* patched so far.
ComputedStart(edit) ==
    SumLen(SplitLinesKeepEnds(fsource), edit.line - 1) + edit.col

ComputedEnd(edit) ==
    SumLen(SplitLinesKeepEnds(fsource), edit.end_line - 1) + edit.end_col

\* C25: _apply_fixes splices the edits in descending order of their start
\* (line, col); for pairwise non-overlapping spans inside the source, when
\* an edit is about to be spliced the text before its start is still the
\* original text, and the offsets computed from the partially patched text
\* are the offsets of the span in the original.
C25_OffsetsAsInOriginal ==
    (fpc = "apply" /\ NonOverlapping(farg, all_edits)) =>
        /\ \A k \in 1..(Len(pending) - 1) : EditKeyGeq(pending[k], pending[k + 1])
        /\ pending # <<>> =>
              \E edit \in {Head(pending)} :
                 /\ SliceTo(fsource, StartIn(farg, edit))
                        = SliceTo(farg, StartIn(farg, edit))
                 /\ ComputedStart(edit) = StartIn(farg, edit)
                 /\ ComputedEnd(edit) = EndIn(farg, edit)

\* Every edit the diagnostics propose, in the order they are encountered:
\* for each diagnostic with a fix its own edit, then its additional edits.
ProposedEdits ==
    Concat([i \in 1..Len(fdiags) |->
               IF fdiags[i].fix.present
               THEN <<TextEdit(fdiags[i].line, fdiags[i].col, fdiags[i].end_line,
                               fdiags[i].end_col, fdiags[i].fix.replacement)>>
                    \o fdiags[i].fix.additional_edits
               ELSE <<>>])

SameSpan(e1, e2) ==
    /\ e1.line = e2.line /\ e1.col = e2.col
    /\ e1.end_line = e2.end_line /\ e1.end_col = e2.end_col

\* C7: proposed edits with the identical span result in exactly one
\* applied edit, the first encountered in diagnostic order; the span is
\* replaced exactly once.
C7_OneEditPerSpanFirstWins ==
    fpc \in {"apply", "done"} =>
        /\ \A i \in 1..Len(ProposedEdits) :
              LET firstAt == CHOOSE k \in 1..i :
                                 /\ SameSpan(ProposedEdits[k], ProposedEdits[i])
                                 /\ \A m \in 1..(k - 1) :
                                        ~SameSpan(ProposedEdits[m], ProposedEdits[i])
                  kept == {k \in 1..Len(all_edits) :
                               SameSpan(all_edits[k], ProposedEdits[i])}
              IN  /\ Cardinality(kept) = 1
                  /\ \A k \in kept : all_edits[k] = ProposedEdits[firstAt]
        /\ \A k \in 1..Len(all_edits) :
              \E i \in 1..Len(ProposedEdits) : ProposedEdits[i] = all_edits[k]
        /\ \A k, m \in 1..Len(pending) : k # m => ~SameSpan(pending[k], pending[m])
        /\ fpc = "done" => pending = <<>>

\* Two diagnostics on one span carrying different replacements, and an
\* additional edit on the span of another diagnostic, all applied.
C7_Witness ==
    /\ fpc = "done"
    /\ fsource # farg
    /\ \E i, j \in 1..Len(fdiags) :
          /\ i < j
          /\ SameSpan(fdiags[i], fdiags[j])
          /\ fdiags[i].fix.present /\ fdiags[j].fix.present
          /\ fdiags[i].fix.replacement # fdiags[j].fix.replacement
    /\ Len(all_edits) < Len(ProposedEdits)

\* C8: _apply_fixes returns its source argument unchanged whenever the
\* diagnostic list is empty or no diagnostic in it carries a fix.
C8_NoFixLeavesSourceUnchanged ==
    (fpc = "done" /\ \A i \in 1..Len(fdiags) : ~fdiags[i].fix.present) =>
        fsource = farg

\* A call that returned, given diagnostics none of which carries a fix.
C8_Witness ==
    /\ fpc = "done"
    /\ Len(fdiags) = MaxDiags
    /\ \A i \in 1..Len(fdiags) : ~fdiags[i].fix.present
    /\ \E i \in 1..Len(fdiags) : fdiags[i].col < fdiags[i].end_col
    /\ fsource = farg

(***************************************************************************)
(* The configuration steps of the check command: the rules of a catalog    *)
(* are filtered, then configured, with the Config that was loaded.         *)
(***************************************************************************)
\* The ids a configuration names: three rules of the catalog and an id
\* that matches no rule.
ConfigIds == {"IMP001", "IMP002", "STR003", "XYZ999"}

Catalogs ==
    {ALL_RULES,
     <<STR003(_DEFAULT_MAX_TRY_BODY), Rule("IMP002"), Rule("IMP001")>>}

RuleOptionTables ==
    {<<>>,
     "STR003" :> ("max_body_stmts" :> IntOpt(2)),
     "STR003" :> ("max_body_stmts" :> StrOpt("many")),
     "STR003" :> ("unknown_option" :> IntOpt(99)),
     "STR003" :> <<>>,
     "IMP001" :> ("max_body_stmts" :> IntOpt(2)),
     ("XYZ999" :> ("x" :> IntOpt(1))) @@ ("STR003" :> ("max_body_stmts" :> IntOpt(1)))}

Configs ==
    {Config(select, ignore, rule_options) :
        select \in {NoSelect} \cup {Select(ids) : ids \in SUBSET ConfigIds},
        ignore \in SUBSET ConfigIds,
        rule_options \in RuleOptionTables}

ConfigInit ==
    /\ all_rules \in Catalogs
    /\ config \in Configs
    /\ active = <<>> /\ configured = NotConfigured
    /\ cpc = "filter"
    /\ AnalyzerIdle /\ FixIdle /\ OtherIdle

\* active_rules = filter_rules(rules.ALL_RULES, cfg)
FilterStep ==
    /\ cpc = "filter"
    /\ active' = filter_rules(all_rules, config)
    /\ cpc' = "configure"
    /\ UNCHANGED <<all_rules, config, configured, avars, fvars, ovars>>

\* active_rules = configure_rules(active_rules, cfg)
ConfigureStep ==
    /\ cpc = "configure"
    /\ configured' = configure_rules(active, config)
    /\ cpc' = "done"
    /\ UNCHANGED <<all_rules, config, active, avars, fvars, ovars>>

ConfigNext == FilterStep \/ ConfigureStep

SpecConfig == ConfigInit /\ [][ConfigNext]_vars

\* A rule is allowed: its identity is in select, when select is given, and
\* is not in ignore.
Allowed(rule) ==
    /\ config.select.present => TypeName(rule) \in config.select.ids
    /\ TypeName(rule) \notin config.ignore

\* C9: filter_rules returns exactly the subsequence of all_rules, in the
\* original order, of the rules whose identity is in select (when select
\* is given) and not in ignore; ignore wins over select, an identity that
\* matches no rule changes nothing, and no select with an empty ignore
\* returns every rule.
C9_FilterIsAllowedSubsequence ==
    cpc \in {"configure", "done"} =>
        /\ active = SelectSeq(all_rules, Allowed)
        /\ (~config.select.present /\ config.ignore = {}) => active = all_rules

\* select names two rules and an unknown id, ignore names one of the two:
\* exactly the other rule is returned.
C9_Witness ==
    /\ cpc = "done"
    /\ all_rules = ALL_RULES
    /\ config.select = Select({"IMP001", "IMP002", "XYZ999"})
    /\ config.ignore = {"IMP001"}
    /\ active = <<Rule("IMP002")>>

\* What configure gives for a rule: STR003 with the options applied, any
\* rule without a configurable option unchanged.
ConfigureOf(rule, options) ==
    IF TypeName(rule) = "STR003" THEN Configure(rule, options) ELSE rule

\* C10: configure_rules completes without error for every rule and
\* returns a list of the same length and order, position i holding
\* active_rules[i].configure(options) when rule_options has an entry for
\* the rule's identity and active_rules[i] itself otherwise.
C10_ConfigureRulesCompletes ==
    cpc = "done" =>
        /\ configured.kind = "returned"
        /\ Len(configured.result) = Len(active)
        /\ \A i \in 1..Len(active) :
              configured.result[i] =
                  IF TypeName(active[i]) \in DOMAIN config.rule_options
                  THEN ConfigureOf(active[i], config.rule_options[TypeName(active[i])])
                  ELSE active[i]

(***************************************************************************)
(* Rule objects and configure.  The STR003 objects live in a heap indexed  *)
(* by identity; configure constructs a new object or returns its receiver. *)
(***************************************************************************)
MaxInstances == 3

\* A reading in which configure stores the option in its receiver.
ConfigureInPlace(heap, id, options) ==
    [heap EXCEPT ![id] = Configure(heap[id], options)]

\* The heap after heap[id].configure(options): STR003(max_body_stmts=...)
\* constructs a new object; `return self` constructs nothing.
ConfigureHeap(heap, id, options) ==
    IF IsInt(MaxBodyStmtsOption(heap[id], options))
    THEN Append(heap, Configure(heap[id], options))
    ELSE heap

\* STR003._check_try_node: a try body of stmt_count statements is flagged
\* unless stmt_count <= self._max_body_stmts.
Flagged(rule, stmt_count) == ~(stmt_count <= rule.max_body_stmts)

\* The option tables handed to configure.
OptionTables ==
    {<<>>,
     "max_body_stmts" :> IntOpt(2),
     "max_body_stmts" :> IntOpt(6),
     "max_body_stmts" :> StrOpt("many"),
     "unknown_option" :> IntOpt(99),
     ("unknown_option" :> IntOpt(99)) @@ ("max_body_stmts" :> IntOpt(1))}

\* rule = STR003() or STR003(max_body_stmts=m)
InstancesInit ==
    /\ \E m \in {_DEFAULT_MAX_TRY_BODY, 2, 3} :
          instances = <<STR003(m)>> /\ created = <<m>>
    /\ call = NoCall
    /\ AnalyzerIdle /\ FixIdle /\ ConfigIdle /\ LoaderIdle /\ DirectiveIdle
    /\ ServerIdle /\ CheckIdle /\ NewIdle

\* configured = rule.configure(options), on any object alive.
ConfigureCall ==
    /\ Len(instances) < MaxInstances
    /\ \E id \in 1..Len(instances), options \in OptionTables :
          \E heap \in {ConfigureHeap(instances, id, options)} :
              /\ instances' = heap
              /\ created' = IF Len(heap) > Len(instances)
                            THEN Append(created, heap[Len(heap)].max_body_stmts)
                            ELSE created
              /\ call' = [receiver |-> id, options |-> options,
                          returned |-> IF Len(heap) > Len(instances)
                                       THEN Len(heap) ELSE id]
    /\ UNCHANGED <<avars, fvars, cvars, lvars, dvars, svars, kvars, nvars>>

InstancesNext == ConfigureCall

SpecInstances == InstancesInit /\ [][InstancesNext]_vars

\* The try-body sizes the rule objects are asked about.
StmtCounts == 0..8

\* C11: configure is a functional update.  The object returned carries
\* max_body_stmts when the option is given (as an integer); no call
\* changes the object it is called on, so every object still checks with
\* the threshold it was constructed with; a table holding only keys the
\* rule does not recognize yields a rule that checks as its receiver does.
C11_ConfigureIsFunctionalUpdate ==
    /\ \A id \in 1..Len(instances) :
          \A n \in StmtCounts :
              Flagged(instances[id], n) <=> (n > created[id])
    /\ call.returned # 0 =>
          /\ ("max_body_stmts" \in DOMAIN call.options
              /\ call.options["max_body_stmts"].type = "int") =>
                 instances[call.returned].max_body_stmts
                     = call.options["max_body_stmts"].value
          /\ "max_body_stmts" \notin DOMAIN call.options =>
                 \A n \in StmtCounts :
                     Flagged(instances[call.returned], n)
                         <=> Flagged(instances[call.receiver], n)

\* An object configured twice with different thresholds, the second call
\* having returned a new object.
C11_Witness ==
    /\ Len(instances) = 3
    /\ created[1] = _DEFAULT_MAX_TRY_BODY
    /\ instances[2].max_body_stmts = 2
    /\ call.receiver = 1 /\ call.returned = 3
    /\ instances[3].max_body_stmts = 6

(***************************************************************************)
(* load_config.  A pyproject.toml is modelled by what opening and parsing  *)
(* it gives: no file, an OSError, bytes that are not UTF-8, text that is   *)
(* not TOML, or a document.  A TOML value carries its Python type; a list  *)
(* or a string carries the elements that iterating it yields.              *)
(***************************************************************************)
Elem(kind, text) == [kind |-> kind, text |-> text]

Value(kind, items) == [kind |-> kind, items |-> items]

\* A key that is not in its table.
Absent == Value("absent", <<>>)

\* A list of strings.
StrList(ids) == Value("list", [i \in 1..Len(ids) |-> Elem("str", ids[i])])

\* The value of `rules`: its type and, for a table, the (key, value) pairs
\* in file order; the value of a key is a table of options or not.
Rules(kind, entries) == [kind |-> kind, entries |-> entries]

Entry(key, kind, opts) == [key |-> key, kind |-> kind, opts |-> opts]

\* An option value that is no int, str or bool.
ListOpt == [type |-> "list", value |-> 0]

\* The value of tool.sergey, and of tool.
Section(kind, select, ignore, rules_) ==
    [kind |-> kind, select |-> select, ignore |-> ignore, rules |-> rules_]

Tool(kind, sergey) == [kind |-> kind, sergey |-> sergey]

NoSection == Section("absent", Absent, Absent, Rules("absent", <<>>))

File(state, tool) == [state |-> state, tool |-> tool]

\* A reading in which a file without a tool.sergey table is passed over
\* for the next one up.
FirstWithSection(chain) ==
    LET found == {i \in 1..Len(chain) :
                     /\ chain[i].state = "valid"
                     /\ chain[i].tool.sergey.kind = "table"}
    IN  IF found = {} THEN 0 ELSE CHOOSE i \in found : \A j \in found : i <= j

\* _find_pyproject: the first directory of [start, *start.parents] whose
\* pyproject.toml is a file; 0 for None.
_find_pyproject(chain) ==
    LET found == {i \in 1..Len(chain) : chain[i].state # "absent"}
    IN  IF found = {} THEN 0 ELSE CHOOSE i \in found : \A j \in found : i <= j

\* A reading in which the identities are taken as written.
IdsAsWritten(raw) == {raw.items[i].text : i \in 1..Len(raw.items)}

\* frozenset(rule_id.upper() for rule_id in raw)
UpperIds(raw) == {Upper(raw.items[i].text) : i \in 1..Len(raw.items)}

\* What iterating raw and calling upper on each element raises: an int is
\* not iterable, an element that is no str has no upper.
IterRaises(raw) ==
    IF raw.kind = "int" THEN "TypeError"
    ELSE IF \E i \in 1..Len(raw.items) : raw.items[i].kind # "str"
    THEN "AttributeError"
    ELSE None

\* {opt_key: opt_val for ... if isinstance(opt_val, int | str | bool)}
ScalarOptions(opts) ==
    [k \in {k \in DOMAIN opts : opts[k].type \in {"int", "str", "bool"}} |-> opts[k]]

RECURSIVE RuleOptions(_, _)
\* The dict comprehension over rules_raw.items(): a later key replaces an
\* earlier one that has the same upper case.
RuleOptions(entries, acc) ==
    IF entries = <<>> THEN acc
    ELSE RuleOptions(Tail(entries),
             IF Head(entries).kind = "table"
             THEN (Upper(Head(entries).key) :> ScalarOptions(Head(entries).opts))
                  @@ acc
             ELSE acc)

Loaded(cfg, opened) ==
    [raised |-> None, config |-> cfg, opened |-> opened, returned |-> TRUE]

Raised(exc, opened) ==
    [raised |-> exc, config |-> Config(NoSelect, {}, <<>>),
     opened |-> opened, returned |-> TRUE]

\* load_config(start), chain being the pyproject.toml of start and of its
\* parents.
load_config(chain) ==
    LET pyproject == _find_pyproject(chain)
        default == Config(NoSelect, {}, <<>>)
        data == chain[pyproject].tool
        section == IF data.kind = "absent" THEN NoSection ELSE data.sergey
        select_raw == section.select
        ignore_raw == section.ignore
        rules_raw == section.rules
    IN  IF pyproject = 0 THEN Loaded(default, {})
        ELSE IF chain[pyproject].state \in {"unreadable", "invalid"}
        THEN Loaded(default, {pyproject})
        ELSE IF chain[pyproject].state = "undecodable"
        THEN Raised("UnicodeDecodeError", {pyproject})
        ELSE IF data.kind \notin {"absent", "table"}
        THEN Raised("AttributeError", {pyproject})
        ELSE IF section.kind = "absent" THEN Loaded(default, {pyproject})
        ELSE IF section.kind # "table"
        THEN Raised("AttributeError", {pyproject})
        ELSE IF select_raw.kind # "absent" /\ IterRaises(select_raw) # None
        THEN Raised(IterRaises(select_raw), {pyproject})
        ELSE IF IterRaises(ignore_raw) # None
        THEN Raised(IterRaises(ignore_raw), {pyproject})
        ELSE IF rules_raw.kind \notin {"absent", "table"}
        THEN Raised("AttributeError", {pyproject})
        ELSE Loaded(Config(IF select_raw.kind = "absent" THEN NoSelect
                           ELSE Select(UpperIds(select_raw)),
                           UpperIds(ignore_raw),
                           RuleOptions(rules_raw.entries, <<>>)),
                    {pyproject})

\* The number of ancestors of the start directory.
MaxParents == 1

SelectValues ==
    {Absent, StrList(<<"imp001", "IMP002">>), StrList(<<"IMP001", "IMP002">>),
     Value("int", <<>>), Value("list", <<Elem("int", "1")>>),
     Value("str", <<Elem("str", "A"), Elem("str", "1")>>)}

IgnoreValues ==
    {Absent, StrList(<<"Str003">>), StrList(<<"STR003">>), Value("int", <<>>)}

RulesValues ==
    {Rules("absent", <<>>), Rules("int", <<>>),
     Rules("table", <<Entry("str003", "table",
                            ("max_body_stmts" :> IntOpt(2)) @@ ("x" :> ListOpt))>>),
     Rules("table", <<Entry("STR003", "table",
                            ("max_body_stmts" :> IntOpt(2)) @@ ("x" :> ListOpt))>>),
     Rules("table", <<Entry("STR003", "int", <<>>)>>),
     Rules("table", <<Entry("STR003", "table", "max_body_stmts" :> IntOpt(1)),
                      Entry("str003", "table", "max_body_stmts" :> IntOpt(2))>>)}

\* The states of the pyproject.toml of the start directory.
Files ==
    {File(st, Tool("absent", NoSection)) :
        st \in {"absent", "unreadable", "undecodable", "invalid", "valid"}}
    \cup {File("valid", Tool("int", NoSection)),
          File("valid", Tool("table", NoSection)),
          File("valid", Tool("table", Section("int", Absent, Absent,
                                              Rules("absent", <<>>))))}
    \cup {File("valid", Tool("table", Section("table", sel, ign, rul))) :
             sel \in SelectValues, ign \in IgnoreValues, rul \in RulesValues}

\* The states of the pyproject.toml of an ancestor.
ParentFiles ==
    {File("absent", Tool("absent", NoSection)),
     File("invalid", Tool("absent", NoSection)),
     File("valid", Tool("table", NoSection)),
     File("valid", Tool("table", Section("table", StrList(<<"IMP001">>),
                                         StrList(<<"IMP004">>),
                                         Rules("absent", <<>>))))}

LoadInit ==
    /\ \E f \in Files, k \in 0..MaxParents :
          \E parents \in [1..k -> ParentFiles] : fs = <<f>> \o parents
    /\ loadres = NotLoaded
    /\ AnalyzerIdle /\ FixIdle /\ ConfigIdle /\ InstancesIdle /\ DirectiveIdle
    /\ ServerIdle /\ CheckIdle /\ NewIdle

\* cfg = load_config(start)
LoadConfigCall ==
    /\ ~loadres.returned
    /\ loadres' = load_config(fs)
    /\ UNCHANGED <<fs, avars, fvars, cvars, ivars, dvars, svars, kvars, nvars>>

LoadNext == LoadConfigCall

SpecLoad == LoadInit /\ [][LoadNext]_vars

\* C12: load_config raises for no state of the configuration file: absent,
\* unreadable, not TOML, or TOML whose tool.sergey section or whose
\* select, ignore and rules values have shapes or element types other
\* than the expected ones.
C12_LoadConfigNeverRaises == loadres.raised = None

\* C13: load_config reads only the first pyproject.toml it meets walking
\* up from the start directory, so the nearer file wins: the result is
\* the one that file alone gives, no other file is opened, and a nearest
\* file that has no tool.sergey section or cannot be parsed gives the
\* default Config whatever the ancestors hold.
C13_NearestFileOnly ==
    loadres.returned =>
        \A i \in 1..Len(fs) :
            (fs[i].state # "absent" /\ \A j \in 1..(i - 1) : fs[j].state = "absent")
            => /\ loadres.opened = {i}
               /\ loadres.raised = load_config(<<fs[i]>>).raised
               /\ loadres.config = load_config(<<fs[i]>>).config
               /\ (\/ fs[i].state = "invalid"
                   \/ fs[i].state = "valid" /\ fs[i].tool.kind = "table"
                      /\ fs[i].tool.sergey.kind = "absent")
                  => loadres = Loaded(Config(NoSelect, {}, <<>>), {i})

\* The start directory's file has no tool.sergey section, its parent's has
\* one that ignores a rule, and the default came back.
C13_Witness ==
    /\ Len(fs) = 2
    /\ fs[1].state = "valid" /\ fs[1].tool.kind = "table"
    /\ fs[1].tool.sergey.kind = "absent"
    /\ fs[2].state = "valid" /\ fs[2].tool.sergey.kind = "table"
    /\ fs[2].tool.sergey.ignore = StrList(<<"IMP004">>)
    /\ loadres = Loaded(Config(NoSelect, {}, <<>>), {1})

\* The file with every identity written in upper case.
UpperCased(f) ==
    LET UpperValue(v) ==
            Value(v.kind, [i \in 1..Len(v.items) |->
                              Elem(v.items[i].kind, Upper(v.items[i].text))])
        UpperRules(r) ==
            Rules(r.kind, [i \in 1..Len(r.entries) |->
                              Entry(Upper(r.entries[i].key), r.entries[i].kind,
                                    r.entries[i].opts)])
        sec == f.tool.sergey
    IN  File(f.state,
             Tool(f.tool.kind,
                  Section(sec.kind, UpperValue(sec.select), UpperValue(sec.ignore),
                          UpperRules(sec.rules))))

\* C14: load_config upper-cases every identity in select, in ignore and in
\* the keys of the rule option tables: the Config holds upper-case
\* identities only, and it is the Config, with the same active and
\* configured rules, that the same file written in upper case gives.
C14_IdentitiesUpperCased ==
    (loadres.returned /\ loadres.raised = None) =>
        LET cfg == loadres.config
            upper == load_config([i \in 1..Len(fs) |-> UpperCased(fs[i])]).config
        IN  /\ \A id \in cfg.select.ids \cup cfg.ignore \cup DOMAIN cfg.rule_options :
                  Upper(id) = id
            /\ cfg = upper
            /\ filter_rules(ALL_RULES, cfg) = filter_rules(ALL_RULES, upper)
            /\ configure_rules(filter_rules(ALL_RULES, cfg), cfg)
                   = configure_rules(filter_rules(ALL_RULES, upper), upper)

\* A file naming rules in lower and mixed case in select, ignore and
\* rules, loaded as the upper-case identities.
C14_Witness ==
    /\ fs[1].state = "valid"
    /\ fs[1].tool.sergey.select = StrList(<<"imp001", "IMP002">>)
    /\ fs[1].tool.sergey.ignore = StrList(<<"Str003">>)
    /\ fs[1].tool.sergey.rules.kind = "table"
    /\ fs[1].tool.sergey.rules.entries[1].key = "str003"
    /\ loadres.returned /\ loadres.raised = None
    /\ loadres.config.select = Select({"IMP001", "IMP002"})
    /\ loadres.config.ignore = {"STR003"}
    /\ DOMAIN loadres.config.rule_options = {"STR003"}

(***************************************************************************)
(* Directive recognition.  A comment is written out with whitespace in     *)
(* each place where some may stand, and _apply_suppressions decides about  *)
(* a diagnostic of its line from the text.                                 *)
(***************************************************************************)
RECURSIVE JoinSpaced(_, _, _)
\* The ids with whitespace before and after each comma.
JoinSpaced(ids, pre, post) ==
    IF Len(ids) <= 1 THEN ids
    ELSE <<Head(ids)>> \o pre \o <<",">> \o post \o JoinSpaced(Tail(ids), pre, post)

\* "# sergey: <keyword>: A, B" with the whitespace of d.gaps.
Spell(d) ==
    <<"#">> \o d.gaps.hash \o <<"sergey">> \o d.gaps.pre1 \o <<":">>
    \o d.gaps.post1 \o <<d.keyword>>
    \o (IF d.ids = <<>> THEN <<>>
        ELSE d.gaps.pre2 \o <<":">> \o d.gaps.post2
             \o JoinSpaced(d.ids, d.gaps.precomma, d.gaps.postcomma))

Gaps ==
    [hash : {<<>>, <<" ">>, <<"\t", " ">>}, pre1 : {<<>>, <<" ">>},
     post1 : {<<>>, <<" ">>, <<" ", " ">>}, pre2 : {<<>>, <<" ">>},
     post2 : {<<>>, <<" ">>}, precomma : {<<>>, <<" ">>},
     postcomma : {<<>>, <<" ">>}]

Directives ==
    [keyword : {"noqa", "disable-file"},
     ids : {<<>>, <<"imp001">>, <<"IMP001", "IMP003">>},
     gaps : Gaps]

\* The rule_id of the diagnostic: of a registered rule, or of a rule
\* whose id is not in upper case.
DiagnosticIds == {"IMP001", "IMP002", "IMP003", "imp001"}

DirectiveInit ==
    /\ directive \in Directives
    /\ drule \in DiagnosticIds
    /\ dres = NotScanned
    /\ AnalyzerIdle /\ FixIdle /\ ConfigIdle /\ InstancesIdle /\ LoaderIdle
    /\ ServerIdle /\ CheckIdle /\ NewIdle

\* _apply_suppressions([diag], source), the source being the comment on the
\* line of diag.
ScanDirective ==
    /\ ~dres.scanned
    /\ \E sup \in {Suppressions(Spell(directive) \o <<"\n">>)} :
          dres' = [scanned |-> TRUE, sup |-> sup,
                   dropped |-> Suppressed(sup, [rule_id |-> drule, line |-> 1])]
    /\ UNCHANGED <<directive, drule, avars, fvars, cvars, ivars, lvars, svars,
                   kvars, nvars>>

DirectiveNext == ScanDirective

SpecDirective == DirectiveInit /\ [][DirectiveNext]_vars

\* C16: recognition tolerates optional whitespace after the hash sign,
\* before and after each colon and around the commas: every spacing variant
\* of a directive is read as the directive written without any optional
\* whitespace, with the same scope and the same rule set.
C16_SpacingVariantsSameDirective ==
    dres.scanned =>
        dres.sup = Suppressions(Spell([directive EXCEPT !.gaps = NoGaps]) \o <<"\n">>)

_to_lsp(diag) ==
    [range |-> [start |-> [line |-> diag.line - 1, character |-> diag.col],
                end |-> [line |-> diag.end_line - 1, character |-> diag.end_col]],
     message |-> <<diag.rule_id, " ">> \o diag.message,
     source |-> "sergey"]

PublishDiagnosticsParams(uri, diagnostics) ==
    [uri |-> uri, diagnostics |-> diagnostics]

\* A reading in which the session analyzes with the rules the project
\* configuration selects and configures, as the check command does.
PublishConfigured(ws, uri) ==
    CHOOSE sent \in
        {IF r.kind = "returned"
         THEN <<PublishDiagnosticsParams(
                   uri, [i \in 1..Len(r.diagnostics) |-> _to_lsp(r.diagnostics[i])])>>
         ELSE <<>> :
         r \in {Analyze(IF load_config(<<project>>).raised = None
                        THEN filter_rules(ALL_RULES, load_config(<<project>>).config)
                        ELSE ALL_RULES,
                        ws[uri], DefaultEnvironment)}} : TRUE

\* _publish(ls, uri): the notifications sent; none when analyze raises.
_publish(ws, uri) ==
    CHOOSE sent \in
        {IF r.kind = "returned"
         THEN <<PublishDiagnosticsParams(
                   uri, [i \in 1..Len(r.diagnostics) |-> _to_lsp(r.diagnostics[i])])>>
         ELSE <<>> :
         r \in {Analyze(ALL_RULES, ws[uri], DefaultEnvironment)}} : TRUE

\* The client's view after the notifications in `sent` arrived.
Received(view, sent) ==
    IF sent = <<>> THEN view ELSE (sent[1].uri :> sent[1].diagnostics) @@ view

Uris == {"a.py", "b.py"}

\* The full texts a client sends.
ServerTexts ==
    {<<Line("pass", NoComment)>>,
     <<Line("import typing, os.path", NoComment)>>,
     <<Line("import typing, os.path", Comment("noqa", <<"IMP003">>))>>,
     <<Line("import", NoComment)>>,
     <<Line(DeepStmt, NoComment)>>}

ServerInit ==
    /\ workspace = <<>> /\ published = <<>> /\ event = NoEvent
    /\ AnalyzerIdle /\ FixIdle /\ ConfigIdle
    /\ InstancesIdle /\ LoaderIdle /\ DirectiveIdle /\ CheckIdle /\ NewIdle

\* textDocument/didOpen
did_open ==
    \E uri \in Uris \ DOMAIN workspace, text \in ServerTexts :
        \E ws \in {(uri :> text) @@ workspace} :
            \E sent \in {_publish(ws, uri)} :
                /\ workspace' = ws
                /\ published' = Received(published, sent)
                /\ event' = [kind |-> "open", uri |-> uri, sent |-> sent]
                /\ UNCHANGED <<avars, fvars, cvars, ivars, lvars, dvars, kvars, nvars>>

\* textDocument/didChange
did_change ==
    \E uri \in DOMAIN workspace, text \in ServerTexts :
        \E ws \in {(uri :> text) @@ workspace} :
            \E sent \in {_publish(ws, uri)} :
                /\ workspace' = ws
                /\ published' = Received(published, sent)
                /\ event' = [kind |-> "change", uri |-> uri, sent |-> sent]
                /\ UNCHANGED <<avars, fvars, cvars, ivars, lvars, dvars, kvars, nvars>>

\* textDocument/didClose
did_close ==
    \E uri \in DOMAIN workspace :
        \E sent \in {<<PublishDiagnosticsParams(uri, <<>>)>>} :
            /\ workspace' = [u \in DOMAIN workspace \ {uri} |-> workspace[u]]
            /\ published' = Received(published, sent)
            /\ event' = [kind |-> "close", uri |-> uri, sent |-> sent]
            /\ UNCHANGED <<avars, fvars, cvars, ivars, lvars, dvars, kvars, nvars>>

ServerNext == did_open \/ did_change \/ did_close

SpecServer == ServerInit /\ [][ServerNext]_vars

\* C18: after any sequence of open, change and close events the set last
\* published for a document is the analysis of its current full text if
\* its last event was an open or a change, and empty if it was a close;
\* each event publishes exactly one set, for its own document.
C18_PublishedMatchesLastEvent ==
    /\ event.kind # "none" =>
          Len(event.sent) = 1 /\ event.sent[1].uri = event.uri
    /\ \A uri \in DOMAIN workspace :
          /\ uri \in DOMAIN published
          /\ LET r == Analyze(ALL_RULES, workspace[uri], DefaultEnvironment)
             IN  /\ r.kind = "returned"
                 /\ published[uri]
                        = [i \in 1..Len(r.diagnostics) |-> _to_lsp(r.diagnostics[i])]
    /\ \A uri \in DOMAIN published \ DOMAIN workspace : published[uri] = <<>>

(***************************************************************************)
(* The check command.  Its documents are the analyzer's: a sequence of     *)
(* lines, every statement spanning its line from column 0, so that an      *)
(* edit of a fix replaces the statement of one line by the statements of   *)
(* its replacement, one per line, the comment staying behind the last.     *)
(* An exception that leaves the command ends the process with status 1.    *)
(***************************************************************************)
MaxFiles == 2

\* The modules importlib finds in the interpreter that runs the command.
CheckEnvironment == {<<"os">>, <<"os", "path">>, <<"typing">>}

\* f"import {alias.name}" and f"from {parent} import {name}"
RenderStmt(stmt) ==
    CASE stmt = ImportStmt(<<"typing">>) -> "import typing"
      [] stmt = ImportStmt(<<"os">>) -> "import os"
      [] stmt = FromImportStmt(<<"os">>, <<"path">>) -> "from os import path"

\* source[:start] + replacement + source[end:] for an edit that spans the
\* statement of its line.
SpliceEdit(src, edit) ==
    LET n == Len(edit.replacement)
    IN  SubSeq(src, 1, edit.line - 1)
        \o [i \in 1..n |->
               Line(RenderStmt(edit.replacement[i]),
                    IF i = n THEN src[edit.line].comment ELSE NoComment)]
        \o SubSeq(src, edit.line + 1, Len(src))

RECURSIVE ApplyEdits(_, _)
\* The loop over the sorted edits.
ApplyEdits(src, edits) ==
    IF edits = <<>> THEN src
    ELSE ApplyEdits(SpliceEdit(src, Head(edits)), Tail(edits))

_apply_fixes(src, diagnostics) ==
    ApplyEdits(src,
               SortedDescending(
                   CollectEdits(diagnostics,
                                [seen |-> {}, all_edits |-> <<>>]).all_edits))

\* f"{file_path}:{diag.line}:{diag.col}: {diag.rule_id} {diag.message}"
EchoLine(path, diag) ==
    [path |-> path, line |-> diag.line, col |-> diag.col,
     text |-> <<diag.rule_id, " ">> \o diag.message]

Echo(path, diagnostics) ==
    [i \in 1..Len(diagnostics) |-> EchoLine(path, diagnostics[i])]

\* A reading in which the diagnostics echoed after a fix are those of the
\* text read, the second analysis made and dropped.
ReportFirstAnalysis(rs, file, fix) ==
    CHOOSE res \in
        {IF r.kind # "returned"
         THEN [raised |-> r.exc, source |-> file.source, diagnostics |-> <<>>,
               analyses |-> 1, writes |-> 0]
         ELSE IF ~fix \/ fixed_source = file.source
         THEN [raised |-> None, source |-> file.source,
               diagnostics |-> r.diagnostics, analyses |-> 1, writes |-> 0]
         ELSE [raised |-> None, source |-> fixed_source,
               diagnostics |-> r.diagnostics, analyses |-> 2, writes |-> 1] :
         r \in {Analyze(rs, file.source, CheckEnvironment)},
         fixed_source \in {_apply_fixes(file.source,
                                        Analyze(rs, file.source,
                                                CheckEnvironment).diagnostics)}} : TRUE

\* The diagnostics of the rules on a text that parses, sorted, before the
\* suppression filter.
BeforeSuppression(rs, src) ==
    Sorted(RunRules(rs, Parse(src).nodes, CheckEnvironment,
                    [raised |-> None, diagnostics |-> <<>>, ran |-> <<>>,
                     loads |-> {}]).diagnostics)

\* A reading in which the fix applier is handed the diagnostics as the
\* rules gave them, the suppressed ones among them.
FixesBeforeSuppression(rs, file, fix) ==
    CHOOSE res \in
        {IF r.kind # "returned"
         THEN [raised |-> r.exc, source |-> file.source, diagnostics |-> <<>>,
               analyses |-> 1, writes |-> 0]
         ELSE IF ~fix \/ fixed_source = file.source
         THEN [raised |-> None, source |-> file.source,
               diagnostics |-> r.diagnostics, analyses |-> 1, writes |-> 0]
         ELSE [raised |-> None, source |-> fixed_source,
               diagnostics |-> Analyze(rs, fixed_source, CheckEnvironment).diagnostics,
               analyses |-> 2, writes |-> 1] :
         r \in {Analyze(rs, file.source, CheckEnvironment)},
         fixed_source \in {_apply_fixes(file.source,
                                        BeforeSuppression(rs, file.source))}} : TRUE

\* The body of the loop for a file that read_text could open: the
\* exception that leaves it, the text the file holds afterwards, the
\* diagnostics that are echoed, and how many times analyze and write_text
\* were called.
CheckFile(rs, file, fix) ==
    IF file.state = "undecodable"
    THEN [raised |-> "UnicodeDecodeError", source |-> file.source,
          diagnostics |-> <<>>, analyses |-> 0, writes |-> 0]
    ELSE CHOOSE res \in
        {IF r.kind # "returned"
         THEN [raised |-> r.exc, source |-> file.source, diagnostics |-> <<>>,
               analyses |-> 1, writes |-> 0]
         ELSE IF ~fix
         THEN [raised |-> None, source |-> file.source,
               diagnostics |-> r.diagnostics, analyses |-> 1, writes |-> 0]
         ELSE CHOOSE fixed_res \in
                {IF fixed_source = file.source
                 THEN [raised |-> None, source |-> file.source,
                       diagnostics |-> r.diagnostics, analyses |-> 1, writes |-> 0]
                 ELSE CHOOSE again_res \in
                        {IF again.kind # "returned"
                         THEN [raised |-> again.exc, source |-> fixed_source,
                               diagnostics |-> <<>>, analyses |-> 2, writes |-> 1]
                         ELSE [raised |-> None, source |-> fixed_source,
                               diagnostics |-> again.diagnostics,
                               analyses |-> 2, writes |-> 1] :
                         again \in {Analyze(rs, fixed_source, CheckEnvironment)}} : TRUE :
                 fixed_source \in {_apply_fixes(file.source, r.diagnostics)}} : TRUE :
         r \in {Analyze(rs, file.source, CheckEnvironment)}} : TRUE

Paths == <<"a.py", "b.py", "c.py", "d.py">>

CheckSources ==
    {<<Line("pass", NoComment)>>,
     <<Line("import os.path", NoComment)>>,
     <<Line("import typing, os.path", NoComment)>>,
     <<Line("import typing, os.path", Comment("noqa", <<"IMP003">>))>>,
     <<Line("import typing, os.path", Comment("noqa", <<"IMP003">>)),
       Line("import os.path", NoComment)>>,
     <<Line("import typing, os.path", NoComment),
       Line("import os.path", Comment("noqa", <<>>))>>,
     <<Line("import typing, os.path", Comment("disable-file", <<"IMP002">>)),
       Line("import os.path", Comment("noqa", <<"IMP003">>))>>,
     <<Line(DeepStmt, NoComment)>>}

\* What read_text finds: a text, an OSError, or bytes that do not decode.
DiskFiles ==
    {[state |-> "ok", source |-> src] : src \in CheckSources}
    \cup {[state |-> st, source |-> <<>>] : st \in {"oserror", "undecodable"}}

ProjectFiles ==
    {File("absent", Tool("absent", NoSection)),
     File("valid", Tool("table", Section("table", Absent, StrList(<<"imp002">>),
                                         Rules("absent", <<>>)))),
     File("valid", Tool("table", Section("table", Value("int", <<>>), Absent,
                                         Rules("absent", <<>>)))),
     File("valid", Tool("table",
          Section("table", Absent, Absent,
                  Rules("table", <<Entry("IMP003", "table", "x" :> IntOpt(1))>>))))}

CheckInit ==
    /\ args \in [ok : BOOLEAN, fix : BOOLEAN]
    /\ project \in ProjectFiles
    /\ \E k \in 0..MaxFiles :
          \E files \in [1..k -> DiskFiles] :
              disk = [i \in 1..k |->
                         [path |-> Paths[i], state |-> files[i].state,
                          source |-> files[i].source, writes |-> 0]]
    /\ proc = [NotStarted EXCEPT !.pc = "start"]
    /\ stdout = <<>> /\ stderr = <<>> /\ processed = <<>>
    /\ AnalyzerIdle /\ FixIdle /\ ConfigIdle
    /\ InstancesIdle /\ LoaderIdle /\ DirectiveIdle /\ ServerIdle /\ NewIdle

\* The command line does not parse: the framework prints the usage and
\* exits with status 2 without calling check.
UsageError ==
    /\ proc.pc = "start" /\ ~args.ok
    /\ proc' = [proc EXCEPT !.pc = "done", !.exit_code = 2]
    /\ UNCHANGED <<args, project, disk, stdout, stderr, processed,
                   avars, fvars, cvars, ivars, lvars, dvars, svars, nvars>>

\* load_config, filter_rules, configure_rules, Analyzer(rules=active_rules)
Startup ==
    /\ proc.pc = "start" /\ args.ok
    /\ \E cfg \in {load_config(<<project>>)} :
          IF cfg.raised # None
          THEN proc' = [proc EXCEPT !.pc = "done", !.exit_code = 1,
                                    !.raised = cfg.raised]
          ELSE \E active_rules \in
                      {configure_rules(filter_rules(ALL_RULES, cfg.config),
                                       cfg.config)} :
                  IF active_rules.kind = "raised"
                  THEN proc' = [proc EXCEPT !.pc = "done", !.exit_code = 1,
                                            !.raised = active_rules.exc]
                  ELSE proc' = [proc EXCEPT !.pc = "loop", !.pos = 1,
                                            !.rules = active_rules.result]
    /\ UNCHANGED <<args, project, disk, stdout, stderr, processed,
                   avars, fvars, cvars, ivars, lvars, dvars, svars, nvars>>

\* One pass of `for file_path in python_files`.
ProcessFile ==
    /\ proc.pc = "loop" /\ proc.pos <= Len(disk)
    /\ LET file == disk[proc.pos]
       IN  IF file.state = "oserror"
           THEN /\ stderr' = Append(stderr, [path |-> file.path, text |-> "error"])
                /\ proc' = [proc EXCEPT !.pos = @ + 1]
                /\ UNCHANGED <<disk, stdout, processed>>
           ELSE \E res \in {CheckFile(proc.rules, file, args.fix)} :
                   /\ disk' = [disk EXCEPT ![proc.pos].source = res.source,
                                           ![proc.pos].writes = @ + res.writes]
                   /\ IF res.raised # None
                      THEN /\ proc' = [proc EXCEPT !.pc = "done", !.exit_code = 1,
                                                   !.raised = res.raised]
                           /\ UNCHANGED <<stdout, stderr, processed>>
                      ELSE /\ stdout' = stdout \o Echo(file.path, res.diagnostics)
                           /\ processed' =
                                  Append(processed,
                                         [path |-> file.path,
                                          diagnostics |-> res.diagnostics,
                                          read |-> file.source,
                                          analyses |-> res.analyses])
                           /\ proc' = [proc EXCEPT
                                          !.pos = @ + 1,
                                          !.found_any = @ \/ res.diagnostics # <<>>]
                           /\ UNCHANGED stderr
    /\ UNCHANGED <<args, project, avars, fvars, cvars, ivars, lvars, dvars, svars,
                   nvars>>

\* if found_any: raise typer.Exit(code=1)
Exit ==
    /\ proc.pc = "loop" /\ proc.pos > Len(disk)
    /\ proc' = [proc EXCEPT !.pc = "done",
                            !.exit_code = IF proc.found_any THEN 1 ELSE 0]
    /\ UNCHANGED <<args, project, disk, stdout, stderr, processed,
                   avars, fvars, cvars, ivars, lvars, dvars, svars, nvars>>

CheckNext == UsageError \/ Startup \/ ProcessFile \/ Exit

SpecCheck == CheckInit /\ [][CheckNext]_vars

\* C19: check exits with status 1 if and only if at least one processed
\* file is left with diagnostics (under --fix: after fixing and analyzing
\* again), and with 0 otherwise; a usage error exits with 2 before any
\* file is processed.
C19_ExitStatus ==
    proc.pc = "done" =>
        IF args.ok
        THEN /\ proc.exit_code \in {0, 1}
             /\ proc.exit_code = 1 <=>
                    \E i \in 1..Len(processed) : processed[i].diagnostics # <<>>
        ELSE proc.exit_code = 2 /\ processed = <<>> /\ stdout = <<>>

\* C20: a file that cannot be read is reported on standard error and
\* skipped; every other file, before it or after it, is analyzed and
\* printed, one line per diagnostic.
C20_UnreadableSkippedOthersChecked ==
    (proc.pc = "done" /\ args.ok) =>
        \A i \in 1..Len(disk) :
            LET Mine(line) == line.path = disk[i].path
            IN  IF disk[i].state = "ok"
                THEN \E j \in 1..Len(processed) :
                        /\ processed[j].path = disk[i].path
                        /\ SelectSeq(stdout, Mine)
                               = Echo(disk[i].path, processed[j].diagnostics)
                ELSE /\ SelectSeq(stderr, Mine) # <<>>
                     /\ SelectSeq(stdout, Mine) = <<>>

(***************************************************************************)
(* Concurrent analyze calls.  The threads share the Analyzer, its rule     *)
(* instances and the interpreter's module cache; the tree and the list of  *)
(* diagnostics are locals of each call.  A step is the parse, one rule's   *)
(* check, or the sort with the suppression filter.                         *)
(***************************************************************************)
MaxThreads == 2

\* A reading in which the list the checks append to is one list shared by
\* the calls.
AppendedShared(ts, t, diagnostics) ==
    [u \in DOMAIN ts |-> [ts[u] EXCEPT !.diagnostics = @ \o diagnostics]]

\* [diag for rule in self.rules for diag in rule.check(tree, source)]: the
\* list is a local of the call of thread t.
Appended(ts, t, diagnostics) ==
    [ts EXCEPT ![t].diagnostics = @ \o diagnostics]

NoOutcome == [kind |-> "none", exc |-> None, diagnostics |-> <<>>]

ConcurrentSources ==
    {<<Line("pass", NoComment)>>,
     <<Line("from pkg import mod", NoComment)>>,
     <<Line("import typing, os.path", Comment("noqa", <<"IMP003">>))>>,
     <<Line("from pkg import mod", NoComment),
       Line("import typing, os.path", NoComment)>>,
     <<Line(DeepStmt, NoComment)>>}

ConcurrentRuleLists ==
    {<<Rule("IMP003"), Rule("IMP001"), Rule("IMP002")>>,
     <<Rule("IMP001"), Rule("DOC001"), STR003(_DEFAULT_MAX_TRY_BODY)>>}

ConcurrentInit ==
    /\ rules \in ConcurrentRuleLists
    /\ env = {<<"pkg">>}
    /\ loaded = {}
    /\ source = <<>> /\ outcome = NotCalled /\ first = NotCalled /\ calls = 0
    /\ threads \in [1..MaxThreads ->
                       {[pc |-> "ready", source |-> src, nodes |-> <<>>, idx |-> 1,
                         diagnostics |-> <<>>, outcome |-> NoOutcome,
                         overlapped |-> FALSE] : src \in ConcurrentSources}]
    /\ FixIdle /\ ConfigIdle
    /\ InstancesIdle /\ LoaderIdle /\ DirectiveIdle /\ ServerIdle /\ CheckIdle
    /\ StructureIdle

\* Another call is between its parse and its return.
OthersInFlight(t) ==
    \E u \in DOMAIN threads \ {t} : threads[u].pc \in {"check", "sort"}

\* tree = ast.parse(source), in thread t.
ThreadParse(t) ==
    /\ threads[t].pc = "ready"
    /\ \E tree \in {Parse(threads[t].source)} :
          threads' =
              [threads EXCEPT
                  ![t] = IF tree.kind = "tree"
                         THEN [@ EXCEPT !.pc = "check", !.nodes = tree.nodes,
                                        !.overlapped = @ \/ OthersInFlight(t)]
                         ELSE [@ EXCEPT
                                  !.pc = "done",
                                  !.outcome =
                                      IF tree.kind = "SyntaxError"
                                      THEN [kind |-> "returned", exc |-> None,
                                            diagnostics |-> <<>>]
                                      ELSE [kind |-> "raised", exc |-> tree.kind,
                                            diagnostics |-> <<>>]]]
    /\ UNCHANGED <<rules, source, env, loaded, outcome, calls, first,
                   fvars, cvars, ivars, lvars, dvars, svars, kvars, uvars>>

\* rule.check(tree, source) of the next rule of self.rules, in thread t.
ThreadCheck(t) ==
    /\ threads[t].pc = "check" /\ threads[t].idx <= Len(rules)
    /\ \E r \in {Check(rules[threads[t].idx], threads[t].nodes, env)} :
          /\ loaded' = loaded \cup r.loads
          /\ threads' =
                IF r.raised # None
                THEN [threads EXCEPT
                         ![t].pc = "done",
                         ![t].overlapped = @ \/ OthersInFlight(t),
                         ![t].outcome = [kind |-> "raised", exc |-> r.raised,
                                         diagnostics |-> <<>>]]
                ELSE [Appended(threads, t, r.diagnostics) EXCEPT
                         ![t].idx = @ + 1,
                         ![t].overlapped = @ \/ OthersInFlight(t),
                         ![t].pc = IF threads[t].idx = Len(rules)
                                   THEN "sort" ELSE "check"]
    /\ UNCHANGED <<rules, source, env, outcome, calls, first,
                   fvars, cvars, ivars, lvars, dvars, svars, kvars, uvars>>

\* sorted(...) and return _apply_suppressions(diagnostics, source), in
\* thread t.
ThreadReturn(t) ==
    /\ threads[t].pc = "sort"
    /\ \E kept \in {_apply_suppressions(Sorted(threads[t].diagnostics),
                                        SourceText(threads[t].source))} :
          threads' = [threads EXCEPT
                         ![t].pc = "done",
                         ![t].overlapped = @ \/ OthersInFlight(t),
                         ![t].outcome = [kind |-> "returned", exc |-> None,
                                         diagnostics |-> kept]]
    /\ UNCHANGED <<rules, source, env, loaded, outcome, calls, first,
                   fvars, cvars, ivars, lvars, dvars, svars, kvars, uvars>>

ConcurrentNext ==
    \E t \in 1..MaxThreads : ThreadParse(t) \/ ThreadCheck(t) \/ ThreadReturn(t)

SpecConcurrent == ConcurrentInit /\ [][ConcurrentNext]_vars

FilteredIds == {"IMP001", "IMP002", "IMP003", "STR004"}

FilteredSources ==
    {<<Line("from pkg import mod", NoComment),
       Line("import typing, os.path", NoComment)>>,
     <<Line("import typing, os.path", Comment("noqa", <<"IMP003">>)),
       Line("def f(): colors = [1]", NoComment)>>,
     <<Line("import typing, os.path", NoComment),
       Line("def f(): colors = [1]", NoComment)>>,
     <<Line("pass", NoComment)>>}

FilteredInit ==
    /\ all_rules = ALL_RULES
    /\ config \in {Config(select, ignore, <<>>) :
                      select \in {NoSelect} \cup
                                 {Select(ids) : ids \in SUBSET FilteredIds},
                      ignore \in SUBSET FilteredIds}
    /\ active = <<>> /\ configured = NotConfigured /\ cpc = "filter"
    /\ rules = <<>> /\ source \in FilteredSources /\ env = {<<"pkg">>}
    /\ loaded = {} /\ outcome = NotCalled /\ first = NotCalled /\ calls = 0
    /\ FixIdle /\ OtherIdle

\* active = filter_rules(all_rules, cfg); az = Analyzer(rules=active)
FilterAndConstruct ==
    /\ cpc = "filter"
    /\ \E kept \in {filter_rules(all_rules, config)} :
          active' = kept /\ rules' = kept
    /\ cpc' = "analyze"
    /\ UNCHANGED <<all_rules, config, configured, source, env, loaded, outcome,
                   calls, first, fvars, ovars>>

\* az.analyze(source)
AnalyzeFiltered ==
    /\ cpc = "analyze"
    /\ \E result \in {Analyze(rules, source, env)} :
          /\ outcome' = [kind |-> result.kind, exc |-> result.exc,
                         diagnostics |-> result.diagnostics]
          /\ loaded' = loaded \cup result.loads
    /\ calls' = calls + 1
    /\ cpc' = "done"
    /\ UNCHANGED <<all_rules, config, active, configured, rules, source, env,
                   first, fvars, ovars>>

FilteredNext == FilterAndConstruct \/ AnalyzeFiltered

SpecFiltered == FilteredInit /\ [][FilteredNext]_vars

\* The diagnostics of the Analyzer built on the whole catalog.
Unfiltered == Analyze(all_rules, source, env)

\* C22: the rule_id of every diagnostic a rule of ALL_RULES emits is the
\* rule's type name; so after filter_rules with X in ignore, or with a
\* select that omits X, analyze returns no diagnostic whose rule_id is X,
\* and the diagnostics of the other rules are those of the unfiltered
\* analysis.
C22_FilteredRuleNeverReported ==
    /\ \A i \in 1..Len(all_rules) :
          \A r \in {Check(all_rules[i], Parse(source).nodes, env)} :
             \A j \in 1..Len(r.diagnostics) :
                r.diagnostics[j].rule_id = TypeName(all_rules[i])
    /\ cpc = "done" /\ outcome.kind = "returned" =>
          /\ \A i \in 1..Len(outcome.diagnostics) :
                LET X == outcome.diagnostics[i].rule_id
                IN  /\ X \notin config.ignore
                    /\ config.select.present => X \in config.select.ids
          /\ \A whole \in {Unfiltered} :
                whole.kind = "returned" =>
                   outcome.diagnostics =
                       SelectSeq(whole.diagnostics,
                                 LAMBDA d : [name |-> d.rule_id] \in
                                               {[name |-> TypeName(active[k])] :
                                                   k \in 1..Len(active)})

\* IMP003 is ignored on a document where IMP002 and IMP003 both fire: the
\* IMP002 diagnostic alone is returned.
C22_Witness ==
    /\ cpc = "done" /\ outcome.kind = "returned"
    /\ config.ignore = {"IMP003"} /\ ~config.select.present
    /\ \E i \in 1..Len(Unfiltered.diagnostics) :
          Unfiltered.diagnostics[i].rule_id = "IMP003"
    /\ \E i \in 1..Len(outcome.diagnostics) :
          outcome.diagnostics[i].rule_id = "IMP002"
    /\ Len(outcome.diagnostics) < Len(Unfiltered.diagnostics)

(***************************************************************************)
(* STR002: control-flow nesting.  A document is a module whose statement   *)
(* holds a chain of constructs, each written inside the one before it: in  *)
(* its body, as its elif branch, alone in its else block, or in its else   *)
(* block beside another statement.  The parser gives an elif branch and    *)
(* an `if` that stands alone in an else block the same tree.               *)
(***************************************************************************)
MaxNest == 6

_MAX_DEPTH == 4

_SCOPE_TYPES == {"FunctionDef", "AsyncFunctionDef", "ClassDef", "Lambda"}

_OTHER_NESTING ==
    {"For", "AsyncFor", "While", "With", "AsyncWith", "Try", "Match", "TryStar"}

Construct(kind, slot) == [kind |-> kind, slot |-> slot]

\* What may be written directly inside the construct p: anything in its
\* body, and for an `if` a further `if` as its elif branch or in its else
\* block.
Inside(p) ==
    {Construct(kind, "body") : kind \in {"if", "for", "def"}}
        \cup (IF p.kind = "if"
              THEN {Construct("if", slot) : slot \in {"elif", "else", "else+"}}
              ELSE {})

RECURSIVE ChainsOfLength(_)
\* The chains of n constructs as written, outermost first.
ChainsOfLength(n) ==
    IF n = 1 THEN {<<Construct(kind, "body")>> : kind \in {"if", "for", "def"}}
    ELSE UNION {{Append(chain, c) : c \in Inside(chain[n - 1])} :
                   chain \in ChainsOfLength(n - 1)}

Chains == UNION {ChainsOfLength(n) : n \in 1..MaxNest}

NodeType(kind) ==
    CASE kind = "if" -> "If" [] kind = "for" -> "For" [] kind = "def" -> "FunctionDef"

PassStmt(line) ==
    [type |-> "Pass", line |-> line, col |-> 0, end_line |-> line, end_col |-> 4,
     body |-> <<>>, orelse |-> <<>>, deep |-> FALSE]

\* An expression statement nested more deeply than the recursion limit.
DeepExpr(line) ==
    [type |-> "Expr", line |-> line, col |-> 0, end_line |-> line, end_col |-> 5000,
     body |-> <<>>, orelse |-> <<>>, deep |-> TRUE]

RECURSIVE NestNode(_, _)
\* The node of the i-th construct of the chain; its line is i.
NestNode(chain, i) ==
    LET below == IF i < Len(chain) THEN chain[i + 1].slot ELSE "none"
    IN  [type |-> NodeType(chain[i].kind),
         line |-> i, col |-> i - 1, end_line |-> Len(chain) + 1, end_col |-> i + 3,
         body |-> IF below = "body" THEN <<NestNode(chain, i + 1)>>
                  ELSE <<PassStmt(i)>>,
         orelse |-> CASE below \in {"elif", "else"} -> <<NestNode(chain, i + 1)>>
                      [] below = "else+" ->
                            <<NestNode(chain, i + 1), PassStmt(Len(chain) + 1)>>
                      [] OTHER -> <<>>,
         deep |-> FALSE]

\* ast.parse of the document: the module's body.
ParseNest(chain, lead) ==
    (IF lead THEN <<DeepExpr(0)>> ELSE <<>>) \o <<NestNode(chain, 1)>>

\* ast.iter_child_nodes(node), the statements among them.
ChildNodes(node) == node.body \o node.orelse

_make_diagnostic(node, depth) ==
    Diagnostic("STR002", <<"STR002", ToString(depth)>>, node, NoFix)

\* new_depth > _MAX_DEPTH and depth == _MAX_DEPTH
EmitsAt(depth) == depth + 1 > _MAX_DEPTH /\ depth = _MAX_DEPTH

RECURSIVE _dispatch(_, _), _enter(_, _), _enter_if(_, _, _), DispatchAll(_, _)
DispatchAll(nodes, depth) ==
    IF nodes = <<>> THEN <<>>
    ELSE _dispatch(Head(nodes), depth) \o DispatchAll(Tail(nodes), depth)

_dispatch(node, depth) ==
    IF node.type \in _SCOPE_TYPES THEN DispatchAll(ChildNodes(node), 0)
    ELSE IF node.type = "If" THEN _enter_if(node, depth, FALSE)
    ELSE IF node.type \in _OTHER_NESTING THEN _enter(node, depth)
    ELSE DispatchAll(ChildNodes(node), depth)

_enter(node, depth) ==
    (IF EmitsAt(depth) THEN <<_make_diagnostic(node, depth + 1)>> ELSE <<>>)
        \o DispatchAll(ChildNodes(node), depth + 1)

_enter_if(node, depth, is_elif) ==
    (IF ~is_elif /\ EmitsAt(depth) THEN <<_make_diagnostic(node, depth + 1)>>
     ELSE <<>>)
        \o DispatchAll(node.body, depth + 1)
        \o (IF Len(node.orelse) = 1 /\ node.orelse[1].type = "If"
            THEN _enter_if(node.orelse[1], depth, TRUE)
            ELSE DispatchAll(node.orelse, depth + 1))

RECURSIVE STR002Loop(_, _)
\* for child in ast.iter_child_nodes(tree): _dispatch(child, 0, diagnostics)
\* under try / except Exception: pass: an exception ends the loop and the
\* diagnostics appended so far are returned.
STR002Loop(children, diagnostics) ==
    IF children = <<>> THEN diagnostics
    ELSE IF Head(children).deep THEN diagnostics
    ELSE STR002Loop(Tail(children), diagnostics \o _dispatch(Head(children), 0))

STR002Check(body) == STR002Loop(body, <<>>)

NestInit ==
    /\ parsed \in {[written |-> chain, lead |-> lead, body |-> ParseNest(chain, lead)] :
                      chain \in Chains, lead \in BOOLEAN}
    /\ reported = NotChecked
    /\ AnalyzerIdle /\ FixIdle /\ ConfigIdle
    /\ InstancesIdle /\ LoaderIdle /\ DirectiveIdle /\ ServerIdle /\ CheckIdle
    /\ ThreadsIdle

\* STR002().check(tree, source)
CheckNesting ==
    /\ ~reported.done
    /\ \E diagnostics \in {STR002Check(parsed.body)} :
          reported' = [done |-> TRUE, diagnostics |-> diagnostics]
    /\ UNCHANGED <<parsed, avars, fvars, cvars, ivars, lvars, dvars, svars, kvars,
                   tvars>>

NestNext == CheckNesting

SpecNest == NestInit /\ [][NestNext]_vars

RECURSIVE WrittenDepth(_, _)
\* The nesting depth of the i-th construct as written: an elif branch
\* stands at the depth of its leading if, the body of a function starts
\* over, and everything else is one deeper than what it is written in.
WrittenDepth(chain, i) ==
    IF i = 1 THEN 1
    ELSE IF chain[i].slot = "elif" THEN WrittenDepth(chain, i - 1)
    ELSE IF chain[i - 1].kind = "def" THEN 1
    ELSE WrittenDepth(chain, i - 1) + 1

\* The control-flow constructs written at depth exactly _MAX_DEPTH + 1,
\* elif branches aside.
AtDepthFive(chain) ==
    {i \in 1..Len(chain) :
        /\ chain[i].kind # "def" /\ chain[i].slot # "elif"
        /\ WrittenDepth(chain, i) = _MAX_DEPTH + 1}

\* C23: with the maximum depth 4, STR002 emits exactly one diagnostic for
\* each control-flow construct whose nesting depth is exactly 5, at that
\* construct, and none for the deeper ones; an elif branch counts at the
\* depth of its leading if and emits none of its own; a function body
\* starts over at depth 0.  Stated for the checks whose walk is not ended
\* by an exception.
C23_OneDiagnosticPerDepthFive ==
    (reported.done /\ ~parsed.lead) =>
        /\ \A i \in AtDepthFive(parsed.written) :
              Cardinality({k \in 1..Len(reported.diagnostics) :
                              reported.diagnostics[k].line = i}) = 1
        /\ \A k \in 1..Len(reported.diagnostics) :
              reported.diagnostics[k].line \in AtDepthFive(parsed.written)

(***************************************************************************)
(* STR003: the size of a try body.  A try statement is written with a body *)
(* of statements; an `if` is written with its branches (the if branch, the *)
(* elif branches, the else branch), which the parser nests: each elif      *)
(* branch becomes an If node that is the only statement of the orelse of   *)
(* the branch before it.                                                   *)
(***************************************************************************)
MaxTryStmts == 2

Simple == [kind |-> "simple", branches |-> <<>>, has_else |-> FALSE]

Compound(kind, branches, has_else) ==
    [kind |-> kind, branches |-> branches, has_else |-> has_else]

\* Blocks of one and of two simple statements.
Blocks == {<<Simple>>, <<Simple, Simple>>}

\* The statements of a try body: a simple statement; an if with one to
\* three branches, the last of them an else branch or not; a for loop; a
\* function and a class.
BodyStmts ==
    {Simple}
        \cup {Compound("if", [i \in 1..n |-> block], has_else) :
                 n \in 1..3, block \in Blocks, has_else \in BOOLEAN}
        \cup {Compound(kind, <<block>>, FALSE) :
                 kind \in {"for", "def", "class"}, block \in Blocks}

WellFormed(stmt) == stmt.has_else => Len(stmt.branches) >= 2

TryBodies == SeqsUpTo({stmt \in BodyStmts : WellFormed(stmt)}, MaxTryStmts)

Node(type, body, orelse, handlers, finalbody) ==
    [type |-> type, body |-> body, orelse |-> orelse, handlers |-> handlers,
     finalbody |-> finalbody]

RECURSIVE ParseBranches(_, _, _)
\* The If node of the branches from the i-th on.
ParseBranches(branches, has_else, i) ==
    LET body == [k \in 1..Len(branches[i]) |-> Node("Assign", <<>>, <<>>, <<>>, <<>>)]
        orelse ==
            IF i = Len(branches) THEN <<>>
            ELSE IF i + 1 = Len(branches) /\ has_else
            THEN [k \in 1..Len(branches[i + 1]) |->
                     Node("Assign", <<>>, <<>>, <<>>, <<>>)]
            ELSE <<ParseBranches(branches, has_else, i + 1)>>
    IN  Node("If", body, orelse, <<>>, <<>>)

ParseStmt(stmt) ==
    LET block(b) == [k \in 1..Len(b) |-> Node("Assign", <<>>, <<>>, <<>>, <<>>)]
    IN  CASE stmt.kind = "simple" -> Node("Assign", <<>>, <<>>, <<>>, <<>>)
          [] stmt.kind = "if" -> ParseBranches(stmt.branches, stmt.has_else, 1)
          [] stmt.kind = "for" -> Node("For", block(stmt.branches[1]), <<>>, <<>>, <<>>)
          [] stmt.kind = "def" ->
                Node("FunctionDef", block(stmt.branches[1]), <<>>, <<>>, <<>>)
          [] stmt.kind = "class" ->
                Node("ClassDef", block(stmt.branches[1]), <<>>, <<>>, <<>>)

\* The Try node of a try statement with one except block and with else
\* and finally blocks, each of `others` simple statements.
ParseTry(body, others) ==
    LET block == [k \in 1..others |-> Node("Assign", <<>>, <<>>, <<>>, <<>>)]
    IN  Node("Try", [k \in 1..Len(body) |-> ParseStmt(body[k])],
             block, <<block>>, block)

_child_stmt_lists(node) ==
    CASE node.type \in {"If", "For", "AsyncFor", "While"} -> <<node.body, node.orelse>>
      [] node.type \in {"With", "AsyncWith"} -> <<node.body>>
      [] node.type \in {"Try", "TryStar"} ->
            <<node.body, node.orelse, node.finalbody>> \o node.handlers
      [] node.type = "Match" -> node.handlers
      [] OTHER -> <<>>

RECURSIVE _count_stmts(_), CountLists(_)
CountLists(lists) ==
    IF lists = <<>> THEN 0
    ELSE _count_stmts(Head(lists)) + CountLists(Tail(lists))

_count_stmts(stmts) ==
    IF stmts = <<>> THEN 0
    ELSE 1 + (IF Head(stmts).type \in _SCOPE_TYPES THEN 0
              ELSE CountLists(_child_stmt_lists(Head(stmts))))
           + _count_stmts(Tail(stmts))

\* The diagnostic carries the count in its message; `line` is the line of
\* the node.
_check_try_node(rule, node, line) ==
    LET stmt_count == _count_stmts(node.body)
    IN  IF stmt_count <= rule.max_body_stmts THEN <<>>
        ELSE <<[rule_id |-> "STR003", line |-> line, stmt_count |-> stmt_count]>>

\* STR003.check on a module whose body is the statements `body`: the Try
\* nodes among them, each checked.
STR003Check(rule, body) ==
    Concat([k \in 1..Len(body) |->
               IF body[k].type = "Try" THEN _check_try_node(rule, body[k], k)
               ELSE <<>>])

ExceptSizes == {1, 6}

TryInit ==
    /\ rules \in {<<STR003(max)>> : max \in {_DEFAULT_MAX_TRY_BODY, 7, 1}}
    /\ parsed \in {[written |-> body, others |-> others,
                    body |-> <<ParseTry(body, others)>>] :
                      body \in TryBodies, others \in ExceptSizes}
    /\ reported = NotChecked
    /\ source = <<>> /\ env = {} /\ loaded = {}
    /\ outcome = NotCalled /\ first = NotCalled /\ calls = 0
    /\ FixIdle /\ ConfigIdle
    /\ InstancesIdle /\ LoaderIdle /\ DirectiveIdle /\ ServerIdle /\ CheckIdle
    /\ ThreadsIdle

\* STR003(max_body_stmts).check(tree, source)
CheckTryBody ==
    /\ ~reported.done
    /\ \E diagnostics \in {STR003Check(rules[1], parsed.body)} :
          reported' = [done |-> TRUE, diagnostics |-> diagnostics]
    /\ UNCHANGED <<parsed, avars, fvars, cvars, ivars, lvars, dvars, svars, kvars,
                   tvars>>

TryNext == CheckTryBody

SpecTryBody == TryInit /\ [][TryNext]_vars

\* The statements of a statement as written: one for the statement, and
\* for an if or a loop those of its branches; a function or a class is one
\* statement whatever it holds.
WrittenCount(stmt) ==
    IF stmt.kind \in {"simple", "def", "class"} THEN 1
    ELSE 1 + SumLen(stmt.branches, Len(stmt.branches))

RECURSIVE WrittenTotal(_)
WrittenTotal(body) ==
    IF body = <<>> THEN 0 ELSE WrittenCount(Head(body)) + WrittenTotal(Tail(body))

\* C26: STR003 counts the statements of the try body recursively, an if
\* with three branches (if / elif / else) of two statements each counting
\* 7, a nested function or class counting 1; the try is flagged exactly
\* when the count of the try body alone, the except, else and finally
\* blocks left out, exceeds the configured maximum.
C26_TryFlaggedIffBodyCountExceeds ==
    reported.done =>
        /\ (reported.diagnostics # <<>>)
               <=> (WrittenTotal(parsed.written) > rules[1].max_body_stmts)
        /\ \A k \in 1..Len(reported.diagnostics) :
               reported.diagnostics[k].stmt_count = WrittenTotal(parsed.written)

(***************************************************************************)
(* The fix pass of the check command.                                      *)
(***************************************************************************)
\* The position in `disk` of the file of a processed entry.
DiskIndex(entry) == CHOOSE k \in 1..Len(disk) : disk[k].path = entry.path

\* C27: with --fix, check makes a single fix pass over each readable
\* file: it analyzes the text read, applies the fixes once, writes the
\* file if and only if the fixed text differs from the text read, at most
\* once, analyzes the fixed text exactly once in that case, and echoes and
\* counts the diagnostics of the fixed text, those of the text read when
\* nothing changed; it does not repeat the pass.
C27_SingleFixPass ==
    args.fix =>
        /\ \A k \in 1..Len(disk) : disk[k].writes <= 1
        /\ \A i \in 1..Len(processed) :
              \E entry \in {processed[i]} :
              \E k \in {DiskIndex(entry)} :
              \E once \in {Analyze(proc.rules, entry.read, CheckEnvironment)} :
              \E fixed \in {_apply_fixes(entry.read, once.diagnostics)} :
                 /\ disk[k].source = fixed
                 /\ disk[k].writes = (IF fixed # entry.read THEN 1 ELSE 0)
                 /\ entry.analyses = 1 + disk[k].writes
                 /\ entry.diagnostics =
                        IF fixed # entry.read
                        THEN Analyze(proc.rules, fixed, CheckEnvironment).diagnostics
                        ELSE once.diagnostics
                 /\ SelectSeq(stdout, LAMBDA line : line.path = entry.path)
                        = Echo(entry.path, entry.diagnostics)
        /\ (proc.pc = "loop" \/ (proc.pc = "done" /\ proc.raised = None)) =>
              (proc.found_any <=>
                  \E i \in 1..Len(processed) : processed[i].diagnostics # <<>>)

\* A file that was rewritten once and analyzed twice, and that is left
\* with a diagnostic the fix did not resolve.
C27_Witness ==
    /\ args.fix /\ proc.pc = "done" /\ proc.exit_code = 1 /\ proc.raised = None
    /\ \E i \in 1..Len(processed) :
          /\ processed[i].analyses = 2
          /\ disk[DiskIndex(processed[i])].writes = 1
          /\ disk[DiskIndex(processed[i])].source # processed[i].read
          /\ processed[i].diagnostics # <<>>
          /\ processed[i].diagnostics
                 # Analyze(proc.rules, processed[i].read, CheckEnvironment).diagnostics

\* The diagnostics of the text read that the suppression filter dropped.
Dropped(rs, src) ==
    CHOOSE r \in
        {[kept |-> kept,
          dropped |-> SelectSeq(BeforeSuppression(rs, src),
                                LAMBDA d : d \notin Range(kept))] :
         kept \in {Analyze(rs, src, CheckEnvironment).diagnostics}} : TRUE

\* The edits the fix applier collected from the diagnostics it was given.
Applied(diagnostics) ==
    CollectEdits(diagnostics, [seen |-> {}, all_edits |-> <<>>]).all_edits

\* Where line n of the text read stands after the edits: each edit above
\* it puts the lines of its replacement in the place of one line.
LineAfter(edits, n) ==
    n + SumLen([k \in 1..Len(edits) |->
                   IF edits[k].line < n
                   THEN [j \in 1..(Len(edits[k].replacement) - 1) |-> j]
                   ELSE <<>>], Len(edits))

\* C28: check --fix never applies the fix of a suppressed diagnostic: the
\* fix applier is given the diagnostics analyze returned, those left after
\* suppression, so the text of the span of a diagnostic that a noqa or
\* disable-file directive covers stands in the file after the pass as it
\* was read, unless a diagnostic that was returned has a fix on that span.
C28_SuppressedFixNotApplied ==
    args.fix =>
        \A i \in 1..Len(processed) :
           \E entry \in {processed[i]} :
           \E after \in {disk[DiskIndex(entry)].source} :
           \E diags \in {Dropped(proc.rules, entry.read)} :
           \E edits \in {Applied(diags.kept)} :
              \A k \in 1..Len(diags.dropped) :
                 \E d \in {diags.dropped[k]} :
                    (\A j \in 1..Len(diags.kept) :
                        ~(diags.kept[j].fix.present /\ SameSpan(diags.kept[j], d)))
                    => /\ \A e \in 1..Len(edits) : edits[e].line # d.line
                       /\ LineAfter(edits, d.line) <= Len(after)
                       /\ after[LineAfter(edits, d.line)] = entry.read[d.line]

\* A file rewritten by the fix of one line while the fixable diagnostic of
\* another line, covered by a noqa directive, moved down untouched.
C28_Witness ==
    /\ args.fix /\ proc.pc = "done" /\ proc.raised = None
    /\ \E i \in 1..Len(processed) :
          /\ disk[DiskIndex(processed[i])].writes = 1
          /\ \E diags \in {Dropped(proc.rules, processed[i].read)} :
                \E k \in 1..Len(diags.dropped) :
                   /\ diags.dropped[k].fix.present
                   /\ diags.dropped[k].line = 2
                   /\ disk[DiskIndex(processed[i])].source[3]
                          = processed[i].read[2]

(***************************************************************************)
(* The two surfaces on one project: a file of a directory that holds a     *)
(* pyproject.toml is open in an editor served by the language server and   *)
(* is checked by the batch command.                                        *)
(***************************************************************************)
SurfaceTexts ==
    {<<Line("pass", NoComment)>>,
     <<Line("import typing, os.path", NoComment)>>,
     <<Line("import typing, os.path", Comment("noqa", <<"IMP003">>))>>}

SurfacesInit ==
    /\ args = [ok |-> TRUE, fix |-> FALSE]
    /\ project \in ProjectFiles
    /\ disk \in {<<[path |-> Paths[1], state |-> "ok", source |-> text,
                    writes |-> 0]>> : text \in SurfaceTexts}
    /\ proc = [NotStarted EXCEPT !.pc = "start"]
    /\ stdout = <<>> /\ stderr = <<>> /\ processed = <<>>
    /\ workspace = <<>> /\ published = <<>> /\ event = NoEvent
    /\ AnalyzerIdle /\ FixIdle /\ ConfigIdle
    /\ InstancesIdle /\ LoaderIdle /\ DirectiveIdle /\ NewIdle

SurfacesNext ==
    \/ did_open \/ did_change \/ did_close
    \/ Startup \/ ProcessFile \/ Exit

SpecSurfaces == SurfacesInit /\ [][SurfacesNext]_vars

\* The rules of the check command for the project: the catalog filtered
\* and configured from what load_config gives.
ProjectRules ==
    \E cfg \in {load_config(<<project>>)} :
        /\ cfg.raised = None
        /\ \E active_rules \in
                 {configure_rules(filter_rules(ALL_RULES, cfg.config), cfg.config)} :
              /\ active_rules.kind = "returned"
              /\ proc.rules = active_rules.result

\* C29: the language server analyzes with the whole catalog ALL_RULES in
\* its default configuration: what it publishes for a text is the analysis
\* of the text by Analyzer(ALL_RULES), whatever select, ignore and rule
\* options the project configuration holds; the check command analyzes
\* with the rules filtered and configured from load_config.
C29_ServerIgnoresProjectConfiguration ==
    /\ (event.kind \in {"open", "change"} /\ event.sent # <<>>) =>
          \E whole \in {Analyze(ALL_RULES, workspace[event.uri], DefaultEnvironment)} :
             /\ whole.kind = "returned"
             /\ event.sent[1].diagnostics =
                    [i \in 1..Len(whole.diagnostics) |-> _to_lsp(whole.diagnostics[i])]
    /\ proc.pc = "loop" => ProjectRules
    /\ \A i \in 1..Len(processed) :
          /\ ProjectRules
          /\ processed[i].diagnostics =
                 Analyze(proc.rules, processed[i].read, CheckEnvironment).diagnostics

\* The project ignores IMP002: the server published an IMP002 diagnostic
\* for the text for which the check command echoed none.
C29_Witness ==
    /\ proc.pc = "done" /\ proc.raised = None
    /\ Len(processed) = 1
    /\ Paths[1] \in DOMAIN workspace
    /\ workspace[Paths[1]] = processed[1].read
    /\ event.kind = "open" /\ event.uri = Paths[1]
    /\ \E i \in 1..Len(event.sent[1].diagnostics) :
          event.sent[1].diagnostics[i].message[1] = "IMP002"
    /\ processed[1].diagnostics # <<>>
    /\ \A i \in 1..Len(processed[1].diagnostics) :
          processed[1].diagnostics[i].rule_id # "IMP002"

(***************************************************************************)
(* Line numbers: the parser numbers the physical lines, which end at a     *)
(* line feed or carriage return; _apply_suppressions numbers what          *)
(* str.splitlines gives, which also ends a line at a form feed (and at     *)
(* the other boundaries of str.splitlines) wherever it stands.             *)
(***************************************************************************)
LineSources ==
    SeqsUpTo({Line(stmt, comment) :
                 stmt \in {"pass", "import typing, os.path", FormFeedStmt},
                 comment \in {NoComment, Comment("noqa", <<>>),
                              Comment("noqa", <<"IMP003">>)}}, MaxLines)

LinesInit ==
    /\ rules \in {<<Rule("IMP002"), Rule("IMP003")>>, <<Rule("IMP003")>>}
    /\ source \in LineSources
    /\ env = DefaultEnvironment
    /\ loaded = {}
    /\ outcome = NotCalled /\ first = NotCalled /\ calls = 0
    /\ FixIdle /\ ConfigIdle /\ OtherIdle

LinesNext == AnalyzeOnce

SpecLines == LinesInit /\ [][LinesNext]_vars

\* The line numbers under which the scan of the text recorded a noqa
\* directive.
RecordedLines == DOMAIN Suppressions(SourceText(source)).line_sups

\* C30: the line number under which _apply_suppressions records a noqa
\* directive is the line number the parser gives the diagnostics that
\* start on the same physical line, also when an earlier line holds a
\* character that str.splitlines takes for a line boundary and the parser
\* does not; so a noqa comment on the start line of a diagnostic that it
\* covers always suppresses it.
C30_NoqaLineIsParserLine ==
    outcome.kind = "returned" =>
        /\ RecordedLines = {n \in 1..Len(source) : source[n].comment.scope = "noqa"}
        /\ \A d \in Range(Emitted) :
              (/\ source[d.line].comment.scope = "noqa"
               /\ DirectiveCovers(source[d.line].comment, d.rule_id))
                  => d \notin Range(outcome.diagnostics)

====
